---- MODULE Spec2Model ----
(***************************************************************************)
(* A model of the Wannier90 -> HDF5 converter                              *)
(* (python/triqs_dft_tools/converters/wannier90.py).                       *)
(*                                                                         *)
(* Numbers.  Energies are integers in units of 1e-6 eV, so that the        *)
(* converter's threshold _w90zero = 2e-6 is the integer 2.  A complex      *)
(* number is a pair <<re, im>>.  A k-point coordinate or a weight is a     *)
(* fraction <<num, den>> (the code's float(ix) / msize).  A matrix is a    *)
(* record [nr, nc, den, e]: nr x nc entries e[<<i, j>>] (0-based, as in    *)
(* the code), each a complex number to be divided by the positive integer  *)
(* den.                                                                    *)
(***************************************************************************)
EXTENDS Integers, Sequences, FiniteSets, TLC

VARIABLES
    msize,      \* kmesh_build: argument msize
    mmode,      \* kmesh_build: argument mmode
    mret,       \* kmesh_build: what the call produced
    r_type,     \* find_rot_mat: self.rot_mat_type
    r_sh,       \* find_rot_mat: argument sh_lst
    r_map,      \* find_rot_mat: argument sh_map
    r_ham,      \* find_rot_mat: argument ham0
    r_ret,      \* find_rot_mat: what the call produced
    inp,        \* convert_dft_input: the constructor's arguments and the files on disk
    pc,         \* convert_dft_input: the statement the master process is at
    err,        \* the exception that ended the run: [kind, line]
    bound,      \* the local names and attributes of self that have been assigned
    self,       \* attributes of the converter instance
    cv,         \* locals of convert_dft_input
    rd,         \* locals of read_wannier90data
    reports,    \* what was handed to mpi.report
    events,     \* files opened and stages run so far
    ar,         \* the HDF archive
    lib,        \* what the libraries have returned: a library call returns the same for the same arguments
    run,        \* how many calls of convert_dft_input the master process has made
    peers       \* the MPI processes other than the master: the method each has returned from

meshVars == <<msize, mmode, mret>>

rotVars == <<r_type, r_sh, r_map, r_ham, r_ret>>

\* the job around the master's call: it is left alone by every statement of a call
mpiVars == <<run, peers>>

convVars == <<inp, pc, err, bound, self, cv, rd, reports, events, ar, lib, mpiVars>>

vars == <<msize, mmode, mret, r_type, r_sh, r_map, r_ham, r_ret,
          inp, pc, err, bound, self, cv, rd, reports, events, ar, lib, run, peers>>

----------------------------------------------------------------------------
(* Bounds of the model *)

\* largest per-axis mesh size handed to kmesh_build on its own
MaxMesh == 3

\* largest number of shells handed to find_rot_mat on its own
MaxShells == 2

----------------------------------------------------------------------------
(* Fractions *)

Frac(n, d) == <<n, d>>

FracEq(x, y) == x[1] * y[2] = y[1] * x[2]

RECURSIVE SumNum(_, _)
\* the sum of the numerators of s[1..n] (fractions of one common denominator)
SumNum(s, n) == IF n = 0 THEN 0 ELSE s[n][1] + SumNum(s, n - 1)

----------------------------------------------------------------------------
(* Complex numbers <<re, im>> *)

Abs(x) == IF x < 0 THEN -x ELSE x

RECURSIVE Gcd(_, _)
Gcd(a, b) == IF b = 0 THEN Abs(a) ELSE Gcd(Abs(b), Abs(a) % Abs(b))

Cx(re, im) == <<re, im>>
CZero == <<0, 0>>
COne == <<1, 0>>
CAdd(x, y) == <<x[1] + y[1], x[2] + y[2]>>
CSub(x, y) == <<x[1] - y[1], x[2] - y[2]>>
CMul(x, y) == <<x[1] * y[1] - x[2] * y[2], x[1] * y[2] + x[2] * y[1]>>
CConj(x) == <<x[1], -x[2]>>
CScale(k, x) == <<k * x[1], k * x[2]>>
CDivExact(x, k) == <<x[1] \div k, x[2] \div k>>

\* one eV (and the number 1.0) counted in the model's unit of 1e-6
Micro == 1000000

\* self._w90zero = 2.e-6, in the model's unit
W90Zero == 2

\* |n / d| <= _w90zero for the complex n / d, where the integer 1 stands for
\* 1e-6 (scale = 1, an energy) or for 1.0 (scale = Micro, a pure number)
CWithinTol(n, d, scale) ==
    LET q == (W90Zero * d) \div scale
    IN  /\ Abs(n[1]) <= q
        /\ Abs(n[2]) <= q
        /\ \/ q = 0
           \/ scale * scale * (n[1] * n[1] + n[2] * n[2]) <= W90Zero * W90Zero * d * d

----------------------------------------------------------------------------
(* Matrices [nr, nc, den, e]: the value at (i, j) is e[<<i, j>>] / den *)

Idx(n, m) == (0..(n - 1)) \X (0..(m - 1))

\* numpy.zeros((n, m), dtype=complex)
MZeros(n, m) == [nr |-> n, nc |-> m, den |-> 1, e |-> [p \in Idx(n, m) |-> CZero]]

\* numpy.identity(n, dtype=complex)
MIdentity(n) ==
    [nr |-> n, nc |-> n, den |-> 1,
     e |-> [p \in Idx(n, n) |-> IF p[1] = p[2] THEN COne ELSE CZero]]

RECURSIVE SetGcd(_, _)
SetGcd(S, g) ==
    IF S = {} THEN g
    ELSE LET x == CHOOSE y \in S : TRUE IN SetGcd(S \ {x}, Gcd(g, x))

\* the same matrix with its common factor cancelled
MNorm(A) ==
    LET g == SetGcd({A.e[p][1] : p \in DOMAIN A.e} \cup {A.e[p][2] : p \in DOMAIN A.e},
                    A.den)
    IN  IF g <= 1 THEN A
        ELSE [A EXCEPT !.den = A.den \div g,
                       !.e = [p \in DOMAIN A.e |-> CDivExact(A.e[p], g)]]

RECURSIVE DotSum(_, _, _, _, _)
\* sum over k < n of A[i, k] * B[k, j]
DotSum(A, B, i, j, n) ==
    IF n = 0 THEN CZero
    ELSE CAdd(DotSum(A, B, i, j, n - 1), CMul(A.e[<<i, n - 1>>], B.e[<<n - 1, j>>]))

\* numpy.dot(A, B); the shapes must agree (numpy raises ValueError otherwise)
MDotOk(A, B) == A.nc = B.nr

\* the product before its common factor is cancelled
MDotRaw(A, B) ==
    [nr |-> A.nr, nc |-> B.nc, den |-> A.den * B.den,
     e |-> [p \in Idx(A.nr, B.nc) |-> DotSum(A, B, p[1], p[2], A.nc)]]

MDot(A, B) == MNorm(MDotRaw(A, B))

\* A.conjugate().transpose()
MDagger(A) ==
    [nr |-> A.nc, nc |-> A.nr, den |-> A.den,
     e |-> [p \in Idx(A.nc, A.nr) |-> CConj(A.e[<<p[2], p[1]>>])]]

\* A[r0:r1, c0:c1] with numpy's clipping of the bounds to the shape
Clip(x, n) == IF x > n THEN n ELSE x

MSlice(A, r0, r1, c0, c1) ==
    LET a0 == Clip(r0, A.nr)
        a1 == Clip(r1, A.nr)
        b0 == Clip(c0, A.nc)
        b1 == Clip(c1, A.nc)
        n == IF a1 > a0 THEN a1 - a0 ELSE 0
        m == IF b1 > b0 THEN b1 - b0 ELSE 0
    IN  [nr |-> n, nc |-> m, den |-> A.den,
         e |-> [p \in Idx(n, m) |-> A.e[<<a0 + p[1], b0 + p[2]>>]]]

\* numpy.allclose(A, B, atol=self._w90zero, rtol=0) for arrays of one shape
MAllClose(A, B, scale) ==
    \A p \in DOMAIN A.e :
        CWithinTol(CSub(CScale(B.den, A.e[p]), CScale(A.den, B.e[p])),
                   A.den * B.den, scale)

\* the two arrays are the same array of numbers
MEqual(A, B) ==
    /\ A.nr = B.nr
    /\ A.nc = B.nc
    /\ \A p \in DOMAIN A.e : CScale(B.den, A.e[p]) = CScale(A.den, B.e[p])

----------------------------------------------------------------------------
(* kmesh_build *)

\* itertools.product(range(a), range(b), range(c)): the ii-th triple, ii 0-based
ProductAt(a, b, c, ii) == <<ii \div (b * c), (ii \div c) % b, ii % c>>

\* line 750
kmesh_nkpt(ms) == ms[1] * ms[2] * ms[3]

\* lines 753-756: a mutation that starts the grid at 1/a instead of 0
kmesh_kpt_shifted(ms, ii) ==
    LET t == ProductAt(ms[1], ms[2], ms[3], ii)
    IN  <<Frac(t[1] + 1, ms[1]), Frac(t[2], ms[2]), Frac(t[3], ms[3])>>

\* lines 753-756: kpts[ii, :] = [ix / msize[0], iy / msize[1], iz / msize[2]]
kmesh_kpt(ms, ii) ==
    LET t == ProductAt(ms[1], ms[2], ms[3], ii)
    IN  <<Frac(t[1], ms[1]), Frac(t[2], ms[2]), Frac(t[3], ms[3])>>

NoMesh == [status |-> "none", nkpt |-> 0, kpts |-> <<>>, wk |-> <<>>]

\* kmesh_build(msize, mmode): raises for mmode # 0, else (nkpt, kpts, wk)
kmesh_build(ms, mm) ==
    IF mm # 0
    THEN [NoMesh EXCEPT !.status = "ValueError"]
    ELSE LET nkpt == kmesh_nkpt(ms)
         IN  [status |-> "ok",
              nkpt   |-> nkpt,
              kpts   |-> [ii \in 1..nkpt |-> kmesh_kpt(ms, ii - 1)],
              wk     |-> [ii \in 1..nkpt |-> Frac(1, nkpt)]]

----------------------------------------------------------------------------
(* numpy.linalg.eigh *)

\* The matrix eigh works on: the lower triangle of A and the real parts of its
\* diagonal (UPLO = 'L'), completed to a Hermitian matrix.
LowerHermitian(A) ==
    [A EXCEPT !.e = [p \in DOMAIN A.e |->
                        IF p[1] = p[2] THEN <<A.e[p][1], 0>>
                        ELSE IF p[1] > p[2] THEN A.e[p]
                        ELSE CConj(A.e[<<p[2], p[1]>>])]]

\* unit vectors of the plane with rational coordinates, in fifths
UnitVectors2 ==
    {<<5, 0>>, <<-5, 0>>, <<0, 5>>, <<0, -5>>,
     <<3, 4>>, <<3, -4>>, <<-3, 4>>, <<-3, -4>>,
     <<4, 3>>, <<4, -3>>, <<-4, 3>>, <<-4, -3>>}

\* the matrix with columns v / 5 and w / 5
Columns2(v, w) ==
    MNorm([nr |-> 2, nc |-> 2, den |-> 5,
           e |-> [p \in Idx(2, 2) |->
                     IF p[2] = 0 THEN <<v[p[1] + 1], 0>> ELSE <<w[p[1] + 1], 0>>]])

\* The orthonormal frames eigh may return: eigenvectors are fixed up to their
\* sign (any frame, for a degenerate eigenvalue), and which one comes out is
\* LAPACK's choice.  A 1 x 1 block always gives [[1]].
Frames2 ==
    UNION {{Columns2(v, w) : w \in {<<-v[2], v[1]>>, <<v[2], -v[1]>>}} :
              v \in UnitVectors2}

Frames(n) == IF n = 1 THEN {MIdentity(1)} ELSE IF n = 2 THEN Frames2 ELSE {}

IsRealDiagonal(D) ==
    \A p \in DOMAIN D.e : /\ D.e[p][2] = 0
                          /\ (p[1] # p[2]) => D.e[p][1] = 0

\* eigenvalues in ascending order, as eigh returns them
Ascending(w) == \A i \in 1..(Len(w) - 1) : w[i] <= w[i + 1]

\* the results eigh(A) can have: w the eigenvalues (ascending), v the matrix
\* whose columns are the eigenvectors
EighSet(A) ==
    LET H == LowerHermitian(A)
    IN  {r \in {LET D == MDotRaw(MDagger(U), MDotRaw(H, U))
                IN  [v |-> U,
                     ok |-> /\ IsRealDiagonal(D)
                            /\ \A i \in 1..A.nr : D.e[<<i - 1, i - 1>>][1] % D.den = 0,
                     w |-> [i \in 1..A.nr |-> D.e[<<i - 1, i - 1>>][1] \div D.den]]
                : U \in Frames(A.nr)} : r.ok /\ Ascending(r.w)}

----------------------------------------------------------------------------
(* find_rot_mat.  Shell lists are sequences, so the code's shell ish is the
   model's ish + 1, and sh_map holds positions in the sequence. *)

\* numpy broadcasting of two arrays of shapes (n, n) and (m, m), or (n,) and (m,)
Broadcastable(n, m) == n = m \/ n = 1 \/ m = 1

\* numpy.allclose(A, B, atol=self._w90zero, rtol=0) on matrices of energies
MAllCloseB(A, B, scale) ==
    IF A.nr = B.nr THEN MAllClose(A, B, scale)
    ELSE IF A.nr = 1
    THEN \A p \in DOMAIN B.e :
             CWithinTol(CSub(CScale(B.den, A.e[<<0, 0>>]), CScale(A.den, B.e[p])),
                        A.den * B.den, scale)
    ELSE \A p \in DOMAIN A.e :
             CWithinTol(CSub(CScale(B.den, A.e[p]), CScale(A.den, B.e[<<0, 0>>])),
                        A.den * B.den, scale)

\* numpy.allclose(w1, w2, atol=self._w90zero, rtol=0) on eigenvalue arrays
VAllClose(w1, w2) ==
    IF Len(w1) = Len(w2) THEN \A i \in 1..Len(w1) : Abs(w1[i] - w2[i]) <= W90Zero
    ELSE IF Len(w1) = 1 THEN \A i \in 1..Len(w2) : Abs(w1[1] - w2[i]) <= W90Zero
    ELSE \A i \in 1..Len(w1) : Abs(w1[i] - w2[1]) <= W90Zero

RECURSIVE SumDims(_, _)
\* sum([sh['dim'] for sh in sh_lst[:n]])
SumDims(sh_lst, n) == IF n = 0 THEN 0 ELSE sh_lst[n].dim + SumDims(sh_lst, n - 1)

\* lines 656-658: ham0[iwf:iwf+nw, iwf:iwf+nw] for shell ish
ShellBlock(sh_lst, ham0, ish) ==
    LET iwf == SumDims(sh_lst, ish - 1)
        nw == sh_lst[ish].dim
    IN  MSlice(ham0, iwf, iwf + nw, iwf, iwf + nw)

\* lines 665-670: the degenerate-eigenvalue warning is issued for shell ish
DegenerateWarning(sh_map, eig, ish) ==
    /\ sh_map[ish] # ish
    /\ \E i, j \in 1..Len(eig[ish].w) :
           i < j /\ Abs(eig[ish].w[j] - eig[ish].w[i]) < W90Zero

\* lines 675-685 with the eigenvectors conjugate-transposed under 'hloc_diag':
\* a mutation
BuildRotDagger(rtype, sh_map, eig, rot_mat, ish) ==
    IF rtype = "hloc_diag" THEN MDagger(eig[ish].v)
    ELSE IF rtype = "wannier"
    THEN IF MDotOk(eig[ish].v, MDagger(eig[sh_map[ish]].v))
         THEN MDot(eig[ish].v, MDagger(eig[sh_map[ish]].v))
         ELSE rot_mat[ish]
    ELSE rot_mat[ish]

\* lines 675-685: the rotation of shell ish under the requested policy
BuildRot(rtype, sh_map, eig, rot_mat, ish) ==
    IF rtype = "hloc_diag" THEN eig[ish].v
    ELSE IF rtype = "wannier"
    THEN IF MDotOk(eig[ish].v, MDagger(eig[sh_map[ish]].v))
         THEN MDot(eig[ish].v, MDagger(eig[sh_map[ish]].v))
         ELSE rot_mat[ish]
    ELSE rot_mat[ish]

\* lines 689-695: the eigenvalues of shell ish agree with its representative's
EigvalCheck(sh_map, eig, ish) == VAllClose(eig[ish].w, eig[sh_map[ish]].w)

\* lines 699-704: rot_mat[ish] is unitary
UnitaryCheck(rot, nw) == MAllClose(MDot(rot, MDagger(rot)), MIdentity(nw), Micro)

\* lines 708-712: the matrix the mapping check conjugates with
MappingFrame(rtype, sh_map, rot_mat, ish) ==
    IF rtype = "hloc_diag" THEN MDot(rot_mat[ish], MDagger(rot_mat[sh_map[ish]]))
    ELSE rot_mat[ish]

\* lines 708-718 with the block conjugated from the other side,
\* tmp_mat * ham0_lst[ish] * tmp_mat^dagger: a mutation
MappingCheckOtherSide(rtype, sh_lst, sh_map, ham0, rot_mat, ish) ==
    LET tmp == IF rtype = "hloc_diag"
               THEN MDot(rot_mat[ish], MDagger(rot_mat[sh_map[ish]]))
               ELSE rot_mat[ish]
        iwf == SumDims(sh_lst, ish - 1)
        irep == SumDims(sh_lst, sh_map[ish] - 1)
        blk == MSlice(ham0, iwf, iwf + sh_lst[ish].dim, iwf, iwf + sh_lst[ish].dim)
        rep == MSlice(ham0, irep, irep + sh_lst[sh_map[ish]].dim,
                      irep, irep + sh_lst[sh_map[ish]].dim)
    IN  MAllCloseB(MDot(tmp, MDot(blk, MDagger(tmp))), rep, 1)

\* lines 713-718: tmp_mat^dagger * ham0_lst[ish] * tmp_mat is ham0_lst[sh_map[ish]]
MappingCheck(rtype, sh_lst, sh_map, ham0, rot_mat, ish) ==
    LET tmp == MappingFrame(rtype, sh_map, rot_mat, ish)
        got == MDot(MDagger(tmp), MDot(ShellBlock(sh_lst, ham0, ish), tmp))
    IN  MAllCloseB(got, ShellBlock(sh_lst, ham0, sh_map[ish]), 1)

\* lines 695, 704, 718 with the two equivalence checks only reported: a mutation
SucceededAfterUnitaryOnly(prev, eigOk, uniOk, mapOk) == prev /\ uniOk

\* lines 695, 704, 718: each failed check sets succeeded = False
SucceededAfter(prev, eigOk, uniOk, mapOk) == prev /\ eigOk /\ uniOk /\ mapOk

\* lines 672-718, one pass of the loop: st is [status, succeeded, rot_mat, reports]
RotStep(rtype, sh_lst, sh_map, ham0, eig, st, ish) ==
    LET nw == sh_lst[ish].dim
        nrep == sh_lst[sh_map[ish]].dim
        cannot == rtype = "wannier" /\ ~MDotOk(eig[ish].v, MDagger(eig[sh_map[ish]].v))
        rot == [st.rot_mat EXCEPT ![ish] = BuildRot(rtype, sh_map, eig, st.rot_mat, ish)]
        r1 == IF cannot THEN {<<ish, "cannot be constructed">>} ELSE {}
    IN  IF ~Broadcastable(nw, nrep)
        THEN \* numpy.allclose cannot broadcast the eigenvalue arrays
             [st EXCEPT !.status = "ValueError", !.rot_mat = rot,
                        !.reports = @ \cup r1]
        ELSE
        LET eigOk == EigvalCheck(sh_map, eig, ish)
            uniOk == UnitaryCheck(rot[ish], nw)
        IN  IF rtype = "hloc_diag" /\ ~MDotOk(rot[ish], MDagger(rot[sh_map[ish]]))
            THEN \* numpy.dot of the two rotations raises
                 [status |-> "ValueError", rot_mat |-> rot,
                  succeeded |-> SucceededAfter(st.succeeded, eigOk, uniOk, TRUE),
                  reports |-> st.reports \cup r1
                      \cup (IF eigOk THEN {} ELSE {<<ish, "eigenvalue mismatch">>})
                      \cup (IF uniOk THEN {} ELSE {<<ish, "not unitary">>})]
            ELSE
            LET mapOk == MappingCheck(rtype, sh_lst, sh_map, ham0, rot, ish)
            IN  [status |-> "ok", rot_mat |-> rot,
                 succeeded |-> SucceededAfter(st.succeeded, eigOk, uniOk, mapOk),
                 reports |-> st.reports \cup r1
                     \cup (IF eigOk THEN {} ELSE {<<ish, "eigenvalue mismatch">>})
                     \cup (IF uniOk THEN {} ELSE {<<ish, "not unitary">>})
                     \cup (IF mapOk THEN {} ELSE {<<ish, "does not map">>})]

RECURSIVE RotLoop(_, _, _, _, _, _, _)
\* lines 672-718: the loop over the shells ish..n_sh
RotLoop(rtype, sh_lst, sh_map, ham0, eig, st, ish) ==
    IF ish > Len(sh_lst) \/ st.status # "ok" THEN st
    ELSE RotLoop(rtype, sh_lst, sh_map, ham0, eig,
                 RotStep(rtype, sh_lst, sh_map, ham0, eig, st, ish), ish + 1)

\* lines 632-633: the block structure of ham0 is the one the shells need
BlockStructureOk(sh_lst, ham0) ==
    ham0.nr = ham0.nc /\ ham0.nr = SumDims(sh_lst, Len(sh_lst))

\* find_rot_mat(n_sh, sh_lst, sh_map, ham0) under self.rot_mat_type, with eig[ish]
\* the result of numpy.linalg.eigh on the block of shell ish
find_rot_mat(rtype, sh_lst, sh_map, ham0, eig) ==
    LET n_sh == Len(sh_lst)
        st0 == [status |-> "ok", succeeded |-> TRUE,
                rot_mat |-> [ish \in 1..n_sh |-> MIdentity(sh_lst[ish].dim)],
                reports |-> {}]
    IN  IF ~BlockStructureOk(sh_lst, ham0)
        THEN [st0 EXCEPT !.succeeded = FALSE,
                         !.reports = {<<0, "wrong block structure">>}]
        ELSE IF rtype = "none"
        THEN [st0 EXCEPT !.reports = {<<0, "method none">>}]
        ELSE LET warned == {<<ish, "degenerate eigenvalue">> :
                               ish \in {i \in 1..n_sh : DegenerateWarning(sh_map, eig, i)}}
             IN  RotLoop(rtype, sh_lst, sh_map, ham0, eig,
                         [st0 EXCEPT !.reports = warned], 1)

RECURSIVE EighLists(_, _, _)
\* The eigh results the loop of lines 654-663 can collect for the first n shells:
\* one for each shell's block, the same for two shells whose blocks are the same
EighLists(sh_lst, ham0, n) ==
    IF n = 0 THEN {<<>>}
    ELSE LET blk == LowerHermitian(ShellBlock(sh_lst, ham0, n))
             same == {j \in 1..(n - 1) :
                         LowerHermitian(ShellBlock(sh_lst, ham0, j)) = blk}
         IN  IF same = {}
             THEN {Append(c, r) : c \in EighLists(sh_lst, ham0, n - 1), r \in EighSet(blk)}
             ELSE {Append(c, c[CHOOSE j \in same : TRUE]) :
                      c \in EighLists(sh_lst, ham0, n - 1)}

\* When the block structure is wrong or the policy is 'none', eigh is not
\* called: one dummy choice.
EighChoices(rtype, sh_lst, ham0) ==
    IF ~BlockStructureOk(sh_lst, ham0) \/ rtype = "none"
    THEN {[ish \in 1..Len(sh_lst) |-> [v |-> MIdentity(1), w |-> <<0>>, ok |-> TRUE]]}
    ELSE EighLists(sh_lst, ham0, Len(sh_lst))

----------------------------------------------------------------------------
(* The state of a converter that has run nothing yet *)

NoErr == [kind |-> "", line |-> 0]

self0 ==
    [fermi_energy |-> 0, n_k |-> 0, kpts |-> <<>>, nrpt |-> 0, rvec |-> <<>>,
     rdeg |-> <<>>, nwfs |-> 0]

cv0 ==
    [nki |-> <<0, 0, 0>>, shells_map |-> <<>>, n_k |-> 0, kpts |-> <<>>,
     kpt_weights |-> <<>>, nr |-> 0, rvec |-> <<>>, rdeg |-> <<>>, nw |-> 0,
     hamr |-> <<>>, u_mat |-> <<>>, udis_mat |-> <<>>, band_mat |-> <<>>,
     n_bands_max |-> 0, ham_corr0 |-> MZeros(0, 0), use_rotations |-> FALSE,
     rot_mat |-> <<>>, proj_mat |-> <<>>, hopping |-> <<>>]

rd0 ==
    [num_wf |-> 0, nrpt |-> 0, nu_k |-> 0, num_wf_u |-> 0, disentangle |-> FALSE,
     nudis_k |-> 0, num_wf_udis |-> 0, num_bnd |-> 0, rvec_idx |-> <<>>,
     rvec_deg |-> <<>>, h_of_r |-> <<>>, pos |-> 0, rprec |-> <<0, 0, 0>>,
     u_mat |-> <<>>, udis_mat |-> <<>>, band_mat |-> <<>>]

NoGroup == [absent |-> TRUE]

\* no library function has been called yet
lib0 == [called |-> {}, map |-> <<>>, eigh |-> <<>>]

\* the archive: whether it is open, how often it has been opened, the groups
\* dft_input and dft_misc_input, and what its other groups hold
ar0 == [open |-> FALSE, opened |-> 0, dft |-> NoGroup, misc |-> NoGroup, other |-> NoGroup]

\* no conversion is under way (the specifications of the single functions)
ConvIdle ==
    /\ inp = [none |-> TRUE]
    /\ pc = "idle"
    /\ err = NoErr
    /\ bound = {}
    /\ self = self0
    /\ cv = cv0
    /\ rd = rd0
    /\ reports = {}
    /\ events = {}
    /\ ar = ar0
    /\ lib = lib0
    /\ run = 0
    /\ peers = <<>>

----------------------------------------------------------------------------
(* Inputs of find_rot_mat: shells of dimension 1 and 2, and on-site blocks with
   integer eigenvalues whose eigenvectors have rational coordinates *)

Shell(d, srt) == [atom |-> srt, sort |-> srt, l |-> (d - 1) \div 2, dim |-> d,
                  SO |-> 0, irep |-> 0]

RealMat2(a, b, c, d) ==
    [nr |-> 2, nc |-> 2, den |-> 1,
     e |-> (<<0, 0>> :> <<a, 0>> @@ <<0, 1>> :> <<b, 0>> @@
            <<1, 0>> :> <<c, 0>> @@ <<1, 1>> :> <<d, 0>>)]

RealMat1(a) == [nr |-> 1, nc |-> 1, den |-> 1, e |-> (<<0, 0>> :> <<a, 0>>)]

\* on-site blocks of a shell of dimension d, in units of 1e-6 eV: differences
\* of 1 and 2 are within _w90zero, a difference of 3 is not
OnsiteBlocks(d) ==
    IF d = 1 THEN {RealMat1(1), RealMat1(3), RealMat1(4)}
    ELSE {RealMat2(1, 0, 0, 4), RealMat2(4, 0, 0, 1), RealMat2(1, 0, 0, 2),
          RealMat2(5, 0, 0, 5), RealMat2(16, -12, -12, 9), RealMat2(9, 12, 12, 16),
          RealMat2(0, 0, 0, 25)}

\* the shell (position in sh_lst) that orbital x belongs to
ShellOf(sh_lst, x) ==
    CHOOSE ish \in 1..Len(sh_lst) :
        SumDims(sh_lst, ish - 1) <= x /\ x < SumDims(sh_lst, ish)

\* the matrix with the given blocks on its diagonal and zero elsewhere
BlockDiag(sh_lst, blocks) ==
    LET n == SumDims(sh_lst, Len(sh_lst))
    IN  [nr |-> n, nc |-> n, den |-> 1,
         e |-> [p \in Idx(n, n) |->
                   LET i == ShellOf(sh_lst, p[1])
                       j == ShellOf(sh_lst, p[2])
                       o == SumDims(sh_lst, i - 1)
                   IN  IF i = j THEN blocks[i].e[<<p[1] - o, p[2] - o>>] ELSE CZero]]

\* maps of each shell to the first shell of its class
RepresentativeMaps(n) ==
    {m \in [1..n -> 1..n] : \A i \in 1..n : m[i] <= i /\ m[m[i]] = m[i]}

NoRot == [status |-> "none", succeeded |-> FALSE, rot_mat |-> <<>>, reports |-> {}]

RotTypes == {"hloc_diag", "wannier", "none"}

\* Shells after the second have dimension 1, and at most one shell has an
\* on-site block with two equal eigenvalues (any frame diagonalises it).
InitRot ==
    /\ r_type \in RotTypes
    /\ \E n \in 1..MaxShells :
           \E dims \in [1..n -> {1, 2}] :
               /\ \A i \in 3..n : dims[i] = 1
               /\ r_sh = [i \in 1..n |-> Shell(dims[i], i)]
               /\ r_map \in RepresentativeMaps(n)
               /\ \E trunc \in BOOLEAN :
                      \E blocks \in [1..n -> OnsiteBlocks(1) \cup OnsiteBlocks(2)] :
                          /\ \A i \in 1..n : blocks[i] \in OnsiteBlocks(dims[i])
                          /\ \A i \in 3..n : blocks[i] # RealMat1(3)
                          /\ Cardinality({i \in 1..n : blocks[i] = RealMat2(5, 0, 0, 5)}) <= 1
                          /\ LET full == BlockDiag(r_sh, blocks)
                             IN  r_ham = IF trunc
                                         THEN MSlice(full, 0, full.nr - 1, 0, full.nc - 1)
                                         ELSE full
    /\ r_ret = NoRot
    /\ msize = <<1, 1, 1>> /\ mmode = 0 /\ mret = NoMesh
    /\ ConvIdle

CallFindRotMat ==
    /\ r_ret.status = "none"
    /\ \E eig \in EighChoices(r_type, r_sh, r_ham) :
           r_ret' = find_rot_mat(r_type, r_sh, r_map, r_ham, eig)
    /\ UNCHANGED <<r_type, r_sh, r_map, r_ham, meshVars, convVars>>

NextRot == CallFindRotMat

SpecRot == InitRot /\ [][NextRot]_vars

----------------------------------------------------------------------------
(* The files a conversion reads.  A header token is [ok, v]: ok is whether
   int() parses it.  A line of seed_hr.dat after the degeneracies is
   [R, i, j, z, bad]: the R-vector, the 1-based orbital pair and the matrix
   element written on the line; bad names a token of the line that is not a
   number ("idx" an orbital index, "val" the real part), "none" otherwise. *)

Tok(v) == [ok |-> TRUE, v |-> v]
BadTok == [ok |-> FALSE, v |-> 0]

HrLine(R, i, j, z) == [R |-> R, i |-> i, j |-> j, z |-> z, bad |-> "none"]

\* seed_hr.dat as Wannier90 writes it for the blocks H[1..] at the vectors rvecs:
\* for each R the num_wf * num_wf lines, the first orbital index running fastest
HrFile(nw, rvecs, degs, H) ==
    [present |-> TRUE, wf_tok |-> Tok(nw), nr_tok |-> Tok(Len(rvecs)), degs |-> degs,
     recs |-> [q \in 1..(Len(rvecs) * nw * nw) |->
                  LET ir == (q - 1) \div (nw * nw)
                      jj == ((q - 1) \div nw) % nw
                      ii == (q - 1) % nw
                  IN  HrLine(rvecs[ir + 1], ii + 1, jj + 1, H[ir + 1].e[<<ii, jj>>])]]

NoFile == [present |-> FALSE]

\* the n * m entries of a k-point block of seed_u.mat or seed_u_dis.mat, a
\* matrix written column by column
ColumnMajor(M) == [q \in 1..(M.nr * M.nc) |-> M.e[<<(q - 1) % M.nr, (q - 1) \div M.nr>>]]

CxMat2(a, b, c, d) ==
    [nr |-> 2, nc |-> 2, den |-> 1,
     e |-> (<<0, 0>> :> a @@ <<0, 1>> :> b @@ <<1, 0>> :> c @@ <<1, 1>> :> d)]

\* a unitary matrix U(k) for k-point ik
UnitaryOfK(nw, ik) ==
    IF nw = 1 THEN (IF ik % 2 = 0 THEN MIdentity(1)
                    ELSE [nr |-> 1, nc |-> 1, den |-> 1, e |-> (<<0, 0>> :> <<0, 1>>)])
    ELSE IF nw = 2
    THEN (IF ik % 2 = 0 THEN CxMat2(CZero, COne, COne, CZero)
          ELSE CxMat2(CZero, <<0, -1>>, <<0, 1>>, CZero))
    ELSE MIdentity(nw)

\* seed_u.mat: header (nu_k, num_wf_u) and one block per k-point
UFile(nuk, nwu, nw) ==
    [present |-> TRUE, nu_k |-> nuk, num_wf_u |-> nwu,
     vals |-> [k \in 1..nuk |-> ColumnMajor(UnitaryOfK(nw, k - 1))]]

\* a disentanglement matrix (nb bands x nw Wannier functions): band b + (nb - nw)
\* carries Wannier function b
DisOfK(nb, nw) ==
    [nr |-> nb, nc |-> nw, den |-> 1,
     e |-> [p \in Idx(nb, nw) |-> IF p[1] = p[2] + (nb - nw) THEN COne ELSE CZero]]

\* seed_u_dis.mat: header (nudis_k, num_wf_udis, num_bnd) and one block per k-point
UdisFile(nk, nwd, nb, nw) ==
    [present |-> TRUE, nudis_k |-> nk, num_wf_udis |-> nwd, num_bnd |-> nb,
     vals |-> [k \in 1..nk |-> ColumnMajor(DisOfK(nb, nw))]]

\* seed.eig: the band energies, k-point by k-point, in units of 1e-6 eV
EigFile(nk, nb) ==
    [present |-> TRUE,
     rows |-> [q \in 1..(nk * nb) |-> 10 * (((q - 1) % nb) + 1) + ((q - 1) \div nb)]]

R0 == <<0, 0, 0>>

\* sets of R-vectors, with the degeneracies of each
RVecSets ==
    {[rvecs |-> <<R0>>, degs |-> <<1>>],
     [rvecs |-> <<<<-1, 0, 0>>, R0, <<1, 0, 0>>>>, degs |-> <<2, 1, 2>>],
     [rvecs |-> <<R0, <<0, 1, 0>>>>, degs |-> <<1, 1>>],
     [rvecs |-> <<<<1, 0, 0>>>>, degs |-> <<1>>]}

RVecOrigin == [rvecs |-> <<R0>>, degs |-> <<1>>]
RVecLine == [rvecs |-> <<<<-1, 0, 0>>, R0, <<1, 0, 0>>>>, degs |-> <<2, 1, 2>>]

\* on-site Hamiltonians H(R = 0) of a file with nw Wannier functions, in 1e-6 eV
OnsiteHams(nw) ==
    IF nw = 1
    THEN {RealMat1(500000),
          [nr |-> 1, nc |-> 1, den |-> 1, e |-> (<<0, 0>> :> <<3, 1>>)],
          [nr |-> 1, nc |-> 1, den |-> 1, e |-> (<<0, 0>> :> <<3, 2>>)]}
    ELSE {RealMat2(1, 0, 0, 4), RealMat2(1, 0, 0, 1), RealMat2(16, -12, -12, 9),
          RealMat2(1, 3, 0, 4), RealMat2(1, 2, 0, 4)}

\* the hopping block H(R) of the files at R # 0
HopHam(nw) == IF nw = 1 THEN RealMat1(2) ELSE RealMat2(2, 1, 1, 2)

\* the Hamiltonian file with on-site block H0 at the vectors of rv
HrOf(nw, rv, H0) ==
    HrFile(nw, rv.rvecs, rv.degs,
           [ir \in 1..Len(rv.rvecs) |-> IF rv.rvecs[ir] = R0 THEN H0 ELSE HopHam(nw)])

\* the same file with line q changed
WithLine(hr, q, line) == [hr EXCEPT !.recs[q] = line]

\* lists of correlated shells: one of dimension 1, one of dimension 2, two
\* equivalent ones, two inequivalent ones
ShellLists ==
    {<<Shell(1, 1)>>, <<Shell(2, 1)>>, <<Shell(1, 1), Shell(1, 1)>>,
     <<Shell(1, 1), Shell(1, 2)>>}

\* how the converter is asked to work, and which companion files exist:
\* Wannier basis; Bloch basis without seed_u_dis.mat; Bloch basis with a
\* disentanglement file of as many bands as Wannier functions; with one more
Variants == {"wannier", "bloch", "bloch_dis_square", "bloch_dis"}

\* the constructor's arguments, seed.inp and the Wannier90 files
Input(rt, variant, km, nki, sh, ef, hr, nuk, nwu, nwd, nscf) ==
    LET nw == IF hr.wf_tok.v > 2 THEN 1 ELSE hr.wf_tok.v
        nb == IF variant = "bloch_dis" THEN nw + 1 ELSE nw
        bloch == variant # "wannier"
        dis == variant \in {"bloch_dis_square", "bloch_dis"}
    IN  [rot_mat_type |-> rt,
         bloch_basis |-> bloch,
         kmesh_mode |-> km,
         nki |-> nki,
         corr_shells |-> sh,
         fermi |-> ef,
         hr |-> hr,
         u |-> IF bloch THEN UFile(nuk, nwu, nw) ELSE NoFile,
         udis |-> IF dis THEN UdisFile(nuk, nwd, nb, nw) ELSE NoFile,
         eig |-> IF dis THEN EigFile(nuk, nb) ELSE NoFile,
         nscf |-> nscf]

----------------------------------------------------------------------------
(* convert_dft_input on the master process, statement by statement *)

Rep(msg, a, b, c) == [msg |-> msg, a |-> a, b |-> b, c |-> c]

\* an exception propagates out of convert_dft_input
Raise(kind, line) ==
    /\ pc' = "failed"
    /\ err' = [kind |-> kind, line |-> line]

Goto(p) ==
    /\ pc' = p
    /\ err' = err

\* lines 130-200: seed.inp is read; shells_map is what
\* ConverterTools.det_shell_equivalence finds, each shell mapped to the first
\* shell of its class
ReadInput ==
    /\ pc = "start"
    /\ Goto("mesh")
    /\ self' = [self EXCEPT !.fermi_energy = inp.fermi]
    /\ \E m \in (IF "map" \notin lib.called THEN RepresentativeMaps(Len(inp.corr_shells))
                ELSE {lib.map}) :
           /\ cv' = [cv EXCEPT !.nki = IF inp.kmesh_mode >= 0 THEN inp.nki
                                       ELSE <<8, 8, 8>>,
                              !.shells_map = m]
           /\ lib' = [lib EXCEPT !.map = m, !.called = @ \cup {"map"}]
    /\ bound' = bound \cup {"nki"}
    /\ events' = events \cup {"open seed.inp"}
    /\ UNCHANGED <<meshVars, rotVars, mpiVars, inp, rd, reports, ar>>

\* lines 205-212: the mesh is built now when its size was given
BuildMesh ==
    /\ pc = "mesh"
    /\ IF inp.kmesh_mode >= 0
       THEN LET m == kmesh_build(cv.nki, inp.kmesh_mode)
            IN  IF m.status # "ok"
                THEN /\ Raise("ValueError", 746)
                     /\ UNCHANGED <<self, cv, bound>>
                ELSE /\ Goto("hr_open")
                     /\ cv' = [cv EXCEPT !.n_k = m.nkpt, !.kpts = m.kpts,
                                         !.kpt_weights = m.wk]
                     /\ self' = [self EXCEPT !.n_k = m.nkpt, !.kpts = m.kpts]
                     /\ bound' = bound \cup {"n_k", "kpts", "kpt_weights",
                                             "self.n_k", "self.kpts"}
       ELSE /\ Goto("hr_open")
            /\ UNCHANGED <<self, cv, bound>>
    /\ UNCHANGED <<meshVars, rotVars, mpiVars, lib, inp, rd, reports, events, ar>>

\* lines 451-459: seed_hr.dat is opened and read; a failure is reported and
\* the next statement uses hr_data
OpenHr ==
    /\ pc = "hr_open"
    /\ events' = events \cup {"open seed_hr.dat"}
    /\ IF inp.hr.present
       THEN /\ Goto("hr_header")
            /\ bound' = bound \cup {"hr_data"}
            /\ reports' = reports
       ELSE /\ Raise("UnboundLocalError", 459)
            /\ bound' = bound
            /\ reports' = reports \cup {Rep("The file could not be read!", 0, 0, 0)}
    /\ UNCHANGED <<meshVars, rotVars, mpiVars, lib, inp, self, cv, rd, ar>>

\* lines 461-466: the two counts of the header; a ValueError is reported
ParseHeader ==
    /\ pc = "hr_header"
    /\ LET wfok == inp.hr.wf_tok.ok
           nrok == inp.hr.wf_tok.ok /\ inp.hr.nr_tok.ok
       IN  /\ rd' = [rd EXCEPT !.num_wf = IF wfok THEN inp.hr.wf_tok.v ELSE @,
                               !.nrpt = IF nrok THEN inp.hr.nr_tok.v ELSE @]
           /\ bound' = bound \cup (IF wfok THEN {"num_wf"} ELSE {})
                             \cup (IF nrok THEN {"nrpt"} ELSE {})
           /\ reports' = IF nrok THEN reports
                         ELSE reports \cup
                              {Rep("Could not read number of WFs or R vectors", 0, 0, 0)}
    /\ Goto(IF inp.bloch_basis THEN "u_file" ELSE "alloc")
    /\ UNCHANGED <<meshVars, rotVars, mpiVars, lib, inp, self, cv, events, ar>>

\* `a is not b` for two ints that int() returned: CPython keeps one object for
\* each of the integers -5..256 and makes a new object for any other
IsNot(a, b) == ~(a = b /\ a \in -5..256)

\* lines 468-480: the header of seed_u.mat and its comparison with seed_hr.dat
ReadU ==
    /\ pc = "u_file"
    /\ events' = events \cup {"open seed_u.mat"}
    /\ IF ~inp.u.present
       THEN /\ Raise("FileNotFoundError", 471)
            /\ rd' = rd
       ELSE /\ rd' = [rd EXCEPT !.nu_k = inp.u.nu_k, !.num_wf_u = inp.u.num_wf_u]
            /\ IF "num_wf" \notin bound THEN Raise("UnboundLocalError", 475)
               ELSE IF IsNot(inp.u.num_wf_u, rd.num_wf) THEN Raise("ValueError", 476)
               ELSE Goto("udis_file")
    /\ UNCHANGED <<meshVars, rotVars, mpiVars, lib, inp, bound, self, cv, reports, ar>>

\* lines 482-508: seed_u_dis.mat, whose absence selects an isolated set of
\* bands, and seed.eig
ReadUdis ==
    /\ pc = "udis_file"
    /\ IF ~inp.udis.present
       THEN /\ Goto("alloc")
            /\ rd' = [rd EXCEPT !.disentangle = FALSE]
            /\ reports' = reports \cup {Rep("WARNING: File missing.", 0, 0, 0)}
            /\ events' = events \cup {"open seed_u_dis.mat"}
       ELSE /\ rd' = [rd EXCEPT !.disentangle = TRUE,
                                !.nudis_k = inp.udis.nudis_k,
                                !.num_wf_udis = inp.udis.num_wf_udis,
                                !.num_bnd = inp.udis.num_bnd]
            /\ reports' = reports
            /\ IF IsNot(inp.udis.num_wf_udis, rd.num_wf_u)
               THEN /\ Raise("ValueError", 500)
                    /\ events' = events \cup {"open seed_u_dis.mat"}
               ELSE /\ events' = events \cup {"open seed_u_dis.mat", "open seed.eig"}
                    /\ IF inp.eig.present THEN Goto("alloc")
                       ELSE Raise("FileNotFoundError", 506)
    /\ bound' = bound \cup {"disentangle"}
    /\ UNCHANGED <<meshVars, rotVars, mpiVars, lib, inp, self, cv, ar>>

\* lines 510-515: the arrays for the R-vectors and for H(R)
Alloc ==
    /\ pc = "alloc"
    /\ IF "nrpt" \notin bound
       THEN /\ Raise("UnboundLocalError", 512)
            /\ UNCHANGED <<rd, events>>
       ELSE /\ Goto("degs")
            /\ rd' = [rd EXCEPT !.rvec_idx = [n \in 1..rd.nrpt |-> <<0, 0, 0>>],
                                !.rvec_deg = [n \in 1..rd.nrpt |-> 0],
                                !.h_of_r = [n \in 1..rd.nrpt |->
                                               MZeros(rd.num_wf, rd.num_wf)]]
            /\ events' = events \cup {"allocate"}
    /\ UNCHANGED <<meshVars, rotVars, mpiVars, lib, inp, bound, self, cv, reports, ar>>

\* lines 518-529: the degeneracies of the R-vectors
ReadDegs ==
    /\ pc = "degs"
    /\ rd' = [rd EXCEPT !.rvec_deg = inp.hr.degs, !.pos = 0]
    /\ Goto(IF rd.nrpt * rd.num_wf * rd.num_wf = 0 THEN "u_fill" ELSE "records")
    /\ UNCHANGED <<meshVars, rotVars, mpiVars, lib, inp, bound, self, cv, reports, events, ar>>

\* lines 552-555 with the Fermi energy never taken off: a mutation
StoredElementVerbatim(cline, ii, jj, ef) == cline.z

\* lines 552-555 with the Fermi energy taken off every diagonal slot: a mutation
StoredElementAnyR(cline, ii, jj, ef) ==
    IF ii = jj THEN <<cline.z[1] - ef, cline.z[2]>> ELSE cline.z

\* lines 552-555: the element stored for the line cline read at slot (ii, jj)
StoredElement(cline, ii, jj, ef) ==
    IF cline.R = <<0, 0, 0>> /\ ii = jj
    THEN <<cline.z[1] - ef, cline.z[2]>>
    ELSE cline.z

\* the slot (ir, jj, ii) of the read loop at its pos-th pass (line 532)
SlotOf(pos, nw) ==
    [ir |-> pos \div (nw * nw), jj |-> (pos \div nw) % nw, ii |-> pos % nw]

\* lines 553, 555 with the element put where the line's own orbital indices
\* say: a mutation
StoreAtWritten(cline, sl) == <<cline.i - 1, cline.j - 1>>

\* lines 553, 555: h_of_r[ir][ii, jj] is assigned, with ii and jj of the loop
StoreAt(cline, sl) == <<sl.ii, sl.jj>>

\* lines 532-558: one line of H(R); a token that is no number ends the loop
ParseRecord ==
    /\ pc = "records"
    /\ LET nw == rd.num_wf
           sl == SlotOf(rd.pos, nw)
           cline == inp.hr.recs[rd.pos + 1]
           first == sl.ii = 0 /\ sl.jj = 0
           last == rd.pos + 1 = rd.nrpt * nw * nw
           wrong == Rep("Wrong data or structure in file", 0, 0, 0)
           rep1 == IF cline.i # sl.ii + 1 \/ cline.j # sl.jj + 1
                   THEN {Rep("Inconsistent indices", sl.ii, sl.jj, sl.ir)} ELSE {}
           rep2 == IF ~first /\ cline.R # rd.rprec
                   THEN {Rep("Inconsistent indices for R vector", sl.ir, 0, 0)} ELSE {}
           seen == [rd EXCEPT !.rvec_idx = IF first THEN [@ EXCEPT ![sl.ir + 1] = cline.R]
                                           ELSE @,
                              !.rprec = IF first THEN cline.R ELSE @]
       IN  IF cline.bad = "idx"
           THEN /\ Goto("u_fill")
                /\ rd' = rd
                /\ reports' = reports \cup {wrong}
           ELSE IF cline.bad = "val"
           THEN /\ Goto("u_fill")
                /\ rd' = seen
                /\ reports' = reports \cup rep1 \cup rep2 \cup {wrong}
           ELSE /\ Goto(IF last THEN "u_fill" ELSE "records")
                /\ rd' = [seen EXCEPT
                             !.h_of_r[sl.ir + 1].e[StoreAt(cline, sl)] =
                                 StoredElement(cline, sl.ii, sl.jj, self.fermi_energy),
                             !.pos = @ + 1]
                /\ reports' = reports \cup rep1 \cup rep2
    /\ UNCHANGED <<meshVars, rotVars, mpiVars, lib, inp, bound, self, cv, events, ar>>

\* vals.reshape(n, m, order='F')
ReshapeF(vals, n, m) ==
    [nr |-> n, nc |-> m, den |-> 1,
     e |-> [p \in Idx(n, m) |-> vals[p[2] * n + p[1] + 1]]]

\* lines 560-575: U(k) from seed_u.mat, or identities for each of self.n_k k-points
FillU ==
    /\ pc = "u_fill"
    /\ IF inp.bloch_basis
       THEN /\ Goto("udis_fill")
            /\ rd' = [rd EXCEPT !.u_mat = [k \in 1..rd.nu_k |->
                                   ReshapeF(inp.u.vals[k], rd.num_wf, rd.num_wf)]]
       ELSE IF "self.n_k" \notin bound
       THEN /\ Raise("AttributeError", 573)
            /\ rd' = rd
       ELSE /\ Goto("udis_fill")
            /\ rd' = [rd EXCEPT !.u_mat = [k \in 1..self.n_k |-> MIdentity(rd.num_wf)]]
    /\ UNCHANGED <<meshVars, rotVars, mpiVars, lib, inp, bound, self, cv, reports, events, ar>>

\* lines 577-600: Udis(k) and the band energies from the files, or identities
\* and a stand-in for each of self.n_k k-points
FillUdis ==
    /\ pc = "udis_fill"
    /\ IF inp.bloch_basis /\ rd.disentangle
       THEN /\ Goto("post_read")
            /\ rd' = [rd EXCEPT
                         !.udis_mat = [k \in 1..rd.nudis_k |->
                                          ReshapeF(inp.udis.vals[k], rd.num_bnd, rd.num_wf)],
                         !.band_mat = [k \in 1..rd.nudis_k |->
                                          [b \in 1..rd.num_bnd |->
                                              inp.eig.rows[(k - 1) * rd.num_bnd + b]]]]
       ELSE IF "self.n_k" \notin bound
       THEN /\ Raise("AttributeError", 593)
            /\ rd' = rd
       ELSE /\ Goto("post_read")
            /\ rd' = [rd EXCEPT
                         !.udis_mat = [k \in 1..self.n_k |-> MIdentity(rd.num_wf)],
                         !.band_mat = [k \in 1..self.n_k |-> [b \in 1..rd.num_wf |-> 1]]]
    /\ UNCHANGED <<meshVars, rotVars, mpiVars, lib, inp, bound, self, cv, reports, events, ar>>

RECURSIVE MaxComp(_, _, _)
\* rvec[:, idir].max() over the first n vectors
MaxComp(rvec, d, n) ==
    IF n = 1 THEN rvec[1][d]
    ELSE LET m == MaxComp(rvec, d, n - 1)
         IN  IF rvec[n][d] > m THEN rvec[n][d] ELSE m

\* line 261: the mesh size derived from the largest R-vector
DerivedMeshSize(rvec) == [d \in 1..3 |-> 2 * MaxComp(rvec, d, Len(rvec)) + 1]

\* lines 280-290: what is reported about the number of Wannier functions
WfReport(nwfs, dim_corr_shells) ==
    IF nwfs < dim_corr_shells
    THEN Rep("ERROR: number of WFs in the file smaller than number of correlated orbitals!",
             0, 0, 0)
    ELSE IF nwfs > dim_corr_shells
    THEN Rep("Number of WFs larger than correlated orbitals", dim_corr_shells + 1, nwfs, 0)
    ELSE Rep("Number of WFs equal to number of correlated orbitals", 0, 0, 0)

\* lines 247-310: read_wannier90data has returned; in derivation mode the mesh
\* is built from the R-vectors; the run-wide quantities are set on self
PostRead ==
    /\ pc = "post_read"
    /\ LET m == kmesh_build(DerivedMeshSize(rd.rvec_idx), 0)
           derive == inp.kmesh_mode = -1
           got == [cv EXCEPT !.nr = rd.nrpt, !.rvec = rd.rvec_idx, !.rdeg = rd.rvec_deg,
                             !.nw = rd.num_wf, !.hamr = rd.h_of_r, !.u_mat = rd.u_mat,
                             !.udis_mat = rd.udis_mat, !.band_mat = rd.band_mat]
           n_k == IF derive THEN m.nkpt ELSE cv.n_k
           kpts == IF derive THEN m.kpts ELSE cv.kpts
       IN  IF ~derive /\ "n_k" \notin bound
           THEN /\ Raise("UnboundLocalError", 269)
                /\ cv' = got
                /\ self' = [self EXCEPT !.nrpt = rd.nrpt]
                /\ UNCHANGED <<bound, reports>>
           ELSE /\ Goto("onsite")
                /\ cv' = [got EXCEPT !.nki = IF derive THEN DerivedMeshSize(rd.rvec_idx)
                                             ELSE @,
                                     !.n_k = n_k,
                                     !.kpts = kpts,
                                     !.kpt_weights = IF derive THEN m.wk ELSE @,
                                     !.n_bands_max = rd.udis_mat[1].nr]
                /\ self' = [self EXCEPT !.nrpt = rd.nrpt, !.n_k = n_k, !.kpts = kpts,
                                        !.rvec = rd.rvec_idx, !.rdeg = rd.rvec_deg,
                                        !.nwfs = rd.num_wf]
                /\ bound' = bound \cup {"n_k", "kpts", "kpt_weights", "self.n_k",
                                        "self.kpts", "n_bands_max"}
                /\ reports' = reports \cup
                       {WfReport(rd.num_wf, SumDims(inp.corr_shells, Len(inp.corr_shells)))}
    /\ UNCHANGED <<meshVars, rotVars, mpiVars, lib, inp, rd, events, ar>>

\* line 320: the R-vectors of the file that are the origin
OriginBlocks(rvec) == {ir \in 1..Len(rvec) : rvec[ir] = <<0, 0, 0>>}

SetMax(S) == CHOOSE x \in S : \A y \in S : y <= x

\* line 315: H(R) has large complex components
LargeImag(H) == Abs(SetMax({H.e[p][2] : p \in DOMAIN H.e})) > W90Zero * H.den

\* line 324 with the tolerance dropped: a mutation
IsHermitianExact(H) == MEqual(MDagger(H), H)

\* line 324: numpy.allclose(ham_corr0.transpose().conjugate(), ham_corr0, ...)
IsHermitian(H) == MAllClose(MDagger(H), H, 1)

\* lines 312-325: the on-site block of the correlated shells and its check
Onsite ==
    /\ pc = "onsite"
    /\ LET dim_corr_shells == SumDims(inp.corr_shells, Len(inp.corr_shells))
           origins == OriginBlocks(cv.rvec)
           ham_corr0 == MSlice(cv.hamr[SetMax(origins)], 0, dim_corr_shells,
                               0, dim_corr_shells)
       IN  /\ reports' = reports \cup
                  {Rep("H(R) has large complex components at R", ir - 1, 0, 0) :
                      ir \in {i \in 1..cv.nr : LargeImag(cv.hamr[i])}}
           /\ IF origins = {}
              THEN /\ Raise("UnboundLocalError", 324)
                   /\ UNCHANGED <<cv, bound>>
              ELSE /\ cv' = [cv EXCEPT !.ham_corr0 = ham_corr0]
                   /\ bound' = bound \cup {"ham_corr0"}
                   /\ IF IsHermitian(ham_corr0) THEN Goto("rot")
                      ELSE Raise("ValueError", 325)
    /\ UNCHANGED <<meshVars, rotVars, mpiVars, lib, inp, self, rd, events, ar>>

\* lines 329-331: the rotations of the (only) spin channel
FindRot ==
    /\ pc = "rot"
    /\ \E eig \in (IF "eigh" \notin lib.called
                  THEN EighChoices(inp.rot_mat_type, inp.corr_shells, cv.ham_corr0)
                  ELSE {lib.eigh}) :
           LET r == find_rot_mat(inp.rot_mat_type, inp.corr_shells, cv.shells_map,
                                 cv.ham_corr0, eig)
           IN  /\ lib' = [lib EXCEPT !.eigh = eig, !.called = @ \cup {"eigh"}]
               /\ cv' = [cv EXCEPT !.use_rotations = r.succeeded, !.rot_mat = r.rot_mat]
               /\ reports' = reports \cup {Rep(x[2], x[1], 0, 0) : x \in r.reports}
               /\ IF r.status = "ok" THEN Goto("proj") ELSE Raise(r.status, 689)
    /\ events' = events \cup {"find_rot_mat"}
    /\ bound' = bound \cup {"rot_mat"}
    /\ UNCHANGED <<meshVars, rotVars, mpiVars, inp, self, rd, ar>>

\* numpy broadcasting of an axis of length n onto one of length m
Fits(n, m) == n = m \/ n = 1

Larger(a, b) == IF a > b THEN a ELSE b

RECURSIVE MaxDim(_, _)
\* line 353: max([crsh['dim'] for crsh in corr_shells])
MaxDim(sh_lst, n) ==
    IF n = 0 THEN 0 ELSE Larger(sh_lst[n].dim, MaxDim(sh_lst, n - 1))

\* the element of a stacked array at k (1-based) when an axis of length 1 is
\* broadcast
AtK(stack, k) == IF Len(stack) = 1 THEN stack[1] ELSE stack[k]

\* lines 364-366: u_temp = (Udis(k) U(k))^dagger for each k
UTemp(udis, u) ==
    [k \in 1..Larger(Len(udis), Len(u)) |-> MDagger(MDot(AtK(udis, k), AtK(u, k)))]

\* line 364: the shapes that einsum('abc,acd->abd') accepts
EinsumOk(udis, u) ==
    /\ Len(udis) >= 1 /\ Len(u) >= 1
    /\ Len(udis) = Len(u) \/ Len(udis) = 1 \/ Len(u) = 1
    /\ udis[1].nc = u[1].nr

\* line 369: proj_mat[ik, isp, icrsh, 0:dim, :] = u_temp[ik, iorb:iorb+dim, :]
ShellRows(ut, iorb, dim, maxdim) ==
    LET got == MSlice(ut, iorb, iorb + dim, 0, ut.nc)
    IN  [nr |-> maxdim, nc |-> ut.nc, den |-> ut.den,
         e |-> [p \in Idx(maxdim, ut.nc) |->
                   IF p[1] < dim
                   THEN got.e[<<IF got.nr = 1 THEN 0 ELSE p[1], p[2]>>]
                   ELSE CZero]]

\* line 369: the assignment of shell icrsh broadcasts
AssignOk(ut, n_k, sh_lst, icrsh) ==
    LET dim == sh_lst[icrsh].dim
        iorb == SumDims(sh_lst, icrsh - 1)
    IN  /\ Fits(Len(ut), n_k)
        /\ Fits(MSlice(ut[1], iorb, iorb + dim, 0, ut[1].nc).nr, dim)

\* lines 351-370: the projectors
Projector ==
    /\ pc = "proj"
    /\ LET sh == inp.corr_shells
           maxdim == MaxDim(sh, Len(sh))
           ut == UTemp(cv.udis_mat, cv.u_mat)
       IN  IF ~EinsumOk(cv.udis_mat, cv.u_mat)
           THEN /\ Raise("ValueError", 364)
                /\ cv' = cv
           ELSE IF \E icrsh \in 1..Len(sh) : ~AssignOk(ut, self.n_k, sh, icrsh)
           THEN /\ Raise("ValueError", 369)
                /\ cv' = cv
           ELSE /\ Goto("hop")
                /\ cv' = [cv EXCEPT !.proj_mat =
                              [k \in 1..self.n_k |->
                                  [icrsh \in 1..Len(sh) |->
                                      ShellRows(AtK(ut, k), SumDims(sh, icrsh - 1),
                                                sh[icrsh].dim, maxdim)]]]
    /\ events' = events \cup {"projector"}
    /\ UNCHANGED <<meshVars, rotVars, mpiVars, lib, inp, bound, self, rd, reports, ar>>

----------------------------------------------------------------------------
(* fourier_ham.  On the meshes of the model every phase 2 pi k.R is a multiple
   of 2 pi / 12, whose cosine and sine are (p + q sqrt(3)) / 2 with integers p
   and q.  H(k) is therefore kept exactly as a pair [a, b] of matrices that
   stands for a + sqrt(3) b. *)

\* 12 k.R modulo 12 for the k-point k (three fractions) and the R-vector R
Phase12(k, R) ==
    (((12 * k[1][1] * R[1]) \div k[1][2]) + ((12 * k[2][1] * R[2]) \div k[2][2])
     + ((12 * k[3][1] * R[3]) \div k[3][2])) % 12

\* 2 cos(2 pi m / 12) as <<p, q>>
Cos2(m) ==
    CASE m = 0 -> <<2, 0>>
      [] m \in {1, 11} -> <<0, 1>>
      [] m \in {2, 10} -> <<1, 0>>
      [] m \in {3, 9} -> <<0, 0>>
      [] m \in {4, 8} -> <<-1, 0>>
      [] m \in {5, 7} -> <<0, -1>>
      [] m = 6 -> <<-2, 0>>

\* 2 sin(2 pi m / 12) as <<p, q>>
Sin2(m) == Cos2((m + 9) % 12)

\* A + B for two matrices of one shape
MAdd(A, B) ==
    MNorm([nr |-> A.nr, nc |-> A.nc, den |-> A.den * B.den,
           e |-> [p \in DOMAIN A.e |->
                     CAdd(CScale(B.den, A.e[p]), CScale(A.den, B.e[p]))]])

\* (c / k) A for the complex c and the integer k
MScale(c, k, A) ==
    MNorm([nr |-> A.nr, nc |-> A.nc, den |-> A.den * k,
           e |-> [p \in DOMAIN A.e |-> CMul(c, A.e[p])]])

\* the factor of the opposite phase, cos(rdotk) - 1j * sin(rdotk)
FactorOpposite(k, R, part) ==
    LET m == (((12 * k[1][1] * R[1]) \div k[1][2]) + ((12 * k[2][1] * R[2]) \div k[2][2])
              + ((12 * k[3][1] * R[3]) \div k[3][2])) % 12
        c(n) == CASE n = 0 -> <<2, 0>>
                  [] n \in {1, 11} -> <<0, 1>>
                  [] n \in {2, 10} -> <<1, 0>>
                  [] n \in {3, 9} -> <<0, 0>>
                  [] n \in {4, 8} -> <<-1, 0>>
                  [] n \in {5, 7} -> <<0, -1>>
                  [] n = 6 -> <<-2, 0>>
    IN  <<c(m)[part], -(c((m + 9) % 12)[part])>>

\* lines 785-787: twice the rational (part 1) or the sqrt(3) (part 2) part of
\* cos(rdotk) + 1j * sin(rdotk)
Factor(k, R, part) ==
    LET m == Phase12(k, R) IN <<Cos2(m)[part], Sin2(m)[part]>>

RECURSIVE FourierSum(_, _, _, _)
\* line 788: the sum over the first n R-vectors of factor * h_of_r[ir]
FourierSum(h_of_r, k, part, n) ==
    IF n = 0 THEN MZeros(self.nwfs, self.nwfs)
    ELSE MAdd(FourierSum(h_of_r, k, part, n - 1),
              MScale(Factor(k, self.rvec[n], part), 2 * self.rdeg[n], h_of_r[n]))

\* lines 763-790
fourier_ham(h_of_r) ==
    [ik \in 1..self.n_k |->
        [a |-> FourierSum(h_of_r, self.kpts[ik], 1, self.nrpt),
         b |-> FourierSum(h_of_r, self.kpts[ik], 2, self.nrpt)]]

\* line 788: factor * h_of_r[ir] has the shape of h_of_k[ik]
FourierOk(h_of_r) ==
    \A ir \in 1..self.nrpt :
        /\ self.rdeg[ir] # 0
        /\ Fits(h_of_r[ir].nr, self.nwfs) /\ Fits(h_of_r[ir].nc, self.nwfs)

\* numpy.diag(v) for the real vector v
MDiag(v) ==
    [nr |-> Len(v), nc |-> Len(v), den |-> 1,
     e |-> [p \in Idx(Len(v), Len(v)) |-> IF p[1] = p[2] THEN <<v[p[1] + 1], 0>>
                                          ELSE CZero]]

\* line 388: proj_mat[ik, isp, :, :, :].reshape(self.nwfs, n_orb)
ProjReshaped(pm, maxdim, nwfs, n_orb) ==
    [nr |-> nwfs, nc |-> n_orb, den |-> pm[1].den,
     e |-> [p \in Idx(nwfs, n_orb) |->
               pm[(p[1] \div maxdim) + 1].e[<<p[1] % maxdim, p[2]>>]]]

\* line 389: numpy.dot(projmat.T.conj(), numpy.dot(hamk[ik], projmat))
Upfold(P, H) == MDot(MDagger(P), MDot(H, P))

\* line 376: the band energies are the hopping when there are more bands than
\* Wannier functions
UseBands(n_bands_max, nwfs) == n_bands_max > nwfs

\* lines 372-392: the hoppings in reciprocal space
Hopping ==
    /\ pc = "hop"
    /\ LET sh == inp.corr_shells
           maxdim == MaxDim(sh, Len(sh))
           n_orb == cv.n_bands_max
           hk == fourier_ham(cv.hamr)
       IN  IF UseBands(n_orb, self.nwfs)
           THEN IF Len(cv.band_mat) < self.n_k
                THEN /\ Raise("IndexError", 380)
                     /\ cv' = cv
                ELSE /\ Goto("save")
                     /\ cv' = [cv EXCEPT !.hopping =
                                   [ik \in 1..self.n_k |->
                                       [a |-> MDiag(cv.band_mat[ik]),
                                        b |-> MZeros(n_orb, n_orb)]]]
           ELSE IF ~FourierOk(cv.hamr)
           THEN /\ Raise("ValueError", 788)
                /\ cv' = cv
           ELSE IF ~inp.bloch_basis
           THEN IF n_orb # self.nwfs
                THEN /\ Raise("ValueError", 392)
                     /\ cv' = cv
                ELSE /\ Goto("save")
                     /\ cv' = [cv EXCEPT !.hopping = hk]
           ELSE IF Len(sh) * maxdim # self.nwfs
           THEN /\ Raise("ValueError", 388)
                /\ cv' = cv
           ELSE /\ Goto("save")
                /\ cv' = [cv EXCEPT !.hopping =
                              [ik \in 1..self.n_k |->
                                  LET P == ProjReshaped(cv.proj_mat[ik], maxdim,
                                                        self.nwfs, n_orb)
                                  IN  [a |-> Upfold(P, hk[ik].a),
                                       b |-> Upfold(P, hk[ik].b)]]]
    /\ events' = events \cup {"hopping"}
    /\ UNCHANGED <<meshVars, rotVars, mpiVars, lib, inp, bound, self, rd, reports, ar>>

\* what is written to the group dft_input (lines 403-408)
DftGroup ==
    [n_k |-> self.n_k, kpts |-> cv.kpts, kpt_weights |-> cv.kpt_weights,
     use_rotations |-> IF cv.use_rotations THEN 1 ELSE 0, rot_mat |-> cv.rot_mat,
     n_orbitals |-> cv.n_bands_max, proj_mat |-> cv.proj_mat, hopping |-> cv.hopping]

\* a group keeps the value it has at every key that is not given a new one
WrittenKeepingOld(grp, items) ==
    IF grp = [absent |-> TRUE] THEN items ELSE grp @@ items

\* lines 397-408, 413-415: the group is created if it is not there, and
\* ar[subgrp][it] = value gives each key its new value, whatever the group held
Written(grp, items) ==
    IF grp = NoGroup THEN items ELSE items @@ grp

\* lines 395-408: the archive is opened and the group dft_input is written; in
\* the Wannier basis that is all and the archive is closed
Save ==
    /\ pc = "save"
    /\ ar' = [ar EXCEPT !.open = inp.bloch_basis, !.opened = @ + 1,
                        !.dft = Written(@, DftGroup)]
    /\ events' = events \cup {"archive"}
    /\ Goto(IF inp.bloch_basis THEN "misc" ELSE "done")
    /\ UNCHANGED <<meshVars, rotVars, mpiVars, lib, inp, bound, self, cv, rd, reports>>

\* n_ks of line 827
NKs == 25

\* line 839: how many of the occupations of a k-point fall in the band window
WindowLen(nocc, n_orb) ==
    LET lo == Clip(NKs - n_orb, nocc)
        hi == Clip(NKs, nocc)
    IN  IF hi > lo THEN hi - lo ELSE 0

\* lines 410-415 and 792-841: the occupations of seed.nscf.out are read while
\* the archive is open, and written to the group dft_misc_input
Misc ==
    /\ pc = "misc"
    /\ events' = events \cup {"open seed.nscf.out"}
    /\ IF ~inp.nscf.present
       THEN /\ Raise("FileNotFoundError", 819)
            /\ ar' = [ar EXCEPT !.open = FALSE]
       ELSE IF ~Fits(WindowLen(inp.nscf.nocc, cv.n_bands_max), cv.n_bands_max)
       THEN /\ Raise("ValueError", 839)
            /\ ar' = [ar EXCEPT !.open = FALSE]
       ELSE /\ Goto("done")
            /\ ar' = [ar EXCEPT !.open = FALSE,
                                !.misc = Written(@, [band_window |->
                                                        <<NKs - cv.n_bands_max, NKs>>])]
    /\ UNCHANGED <<meshVars, rotVars, mpiVars, lib, inp, bound, self, cv, rd, reports>>

----------------------------------------------------------------------------
(* The conversions that are run: regular files on given meshes, the rotation
   policies, the mesh modes, damaged or missing files, and companion files
   whose counts differ *)

Nscf(nocc) == [present |-> TRUE, nocc |-> nocc]

\* a Hamiltonian file whose header announces n Wannier functions; its lines
\* after the header are not spelled out
HrBig(n) ==
    [present |-> TRUE, wf_tok |-> Tok(n), nr_tok |-> Tok(1), degs |-> <<1>>, recs |-> <<>>]

FermiEnergies == {0, 200000}

InputsNumeric ==
    UNION {{Input("hloc_diag", v, 0, nki, sh, ef, HrOf(nw, rv, H0), kmesh_nkpt(nki),
                  nw, nw, Nscf(NKs)) :
               v \in Variants, nki \in {<<1, 1, 1>>, <<2, 1, 1>>}, sh \in ShellLists,
               ef \in FermiEnergies, H0 \in OnsiteHams(nw), rv \in RVecSets} :
           nw \in {1, 2}}

InputsRot ==
    UNION {{Input(rt, "wannier", 0, <<1, 1, 1>>, sh, 0, HrOf(nw, RVecOrigin, H0), 1,
                  nw, nw, Nscf(NKs)) :
               rt \in {"wannier", "none"}, sh \in ShellLists, H0 \in OnsiteHams(nw)} :
           nw \in {1, 2}}

InputsMesh ==
    {Input("hloc_diag", v, km, <<1, 1, 1>>, <<Shell(1, 1)>>, ef,
           HrOf(1, rv, RealMat1(500000)), nuk, 1, 1, Nscf(NKs)) :
        v \in Variants, km \in {-2, -1, 1, 2}, ef \in FermiEnergies, rv \in RVecSets,
        nuk \in {1, 3}}

\* lines of a file that are not what Wannier90 writes
DamagedLines(line) ==
    {[line EXCEPT !.bad = "idx"], [line EXCEPT !.bad = "val"],
     [line EXCEPT !.R = <<0, 0, 1>>], [line EXCEPT !.R = R0],
     [line EXCEPT !.i = line.j, !.j = line.i]}

InputsFiles ==
    LET hr1 == HrOf(1, RVecLine, RealMat1(500000))
        hr2 == HrOf(2, RVecLine, RealMat2(1, 0, 0, 4))
        base(v, km, ef, hr) ==
            Input("hloc_diag", v, km, <<1, 1, 1>>, <<Shell(1, 1)>>, ef, hr, 1,
                  hr.wf_tok.v, hr.wf_tok.v, Nscf(NKs))
    IN  UNION {{[base(v, km, 0, hr1) EXCEPT !.hr = NoFile],
                [base(v, km, 0, hr1) EXCEPT !.hr.wf_tok = BadTok],
                [base(v, km, 0, hr1) EXCEPT !.hr.nr_tok = BadTok]} :
               v \in Variants, km \in {0, -1}}
        \cup UNION {{base("wannier", 0, ef, WithLine(x.hr, x.q, line)) :
                        line \in DamagedLines(x.hr.recs[x.q]), ef \in FermiEnergies} :
                    x \in {[hr |-> hr1, q |-> 1], [hr |-> hr1, q |-> 2],
                           [hr |-> hr2, q |-> 2], [hr |-> hr2, q |-> 5],
                           [hr |-> hr2, q |-> 6], [hr |-> hr2, q |-> 8]}}
        \cup {[base(v, 0, 0, hr1) EXCEPT !.nscf = f] :
                 v \in Variants \ {"wannier"}, f \in {NoFile, Nscf(0), Nscf(1), Nscf(30)}}

\* the numbers of Wannier functions that the headers of the files announce
WfCounts == {1, 2, 300}

InputsCounts ==
    {Input("hloc_diag", v, 0, <<1, 1, 1>>, <<Shell(1, 1)>>, 0,
           IF nw > 2 THEN HrBig(nw) ELSE HrOf(nw, RVecOrigin, MIdentity(nw)),
           1, nwu, nwd, Nscf(NKs)) :
        v \in Variants \ {"wannier"}, nw \in WfCounts, nwu \in WfCounts, nwd \in WfCounts}

\* Bloch-basis runs whose seed_u.mat (and seed_u_dis.mat, seed.eig) hold a
\* number of k-points that is, or is not, that of the mesh asked for
InputsKCount ==
    {Input("hloc_diag", v, 0, nki, <<Shell(1, 1)>>, 0,
           HrOf(1, RVecLine, RealMat1(500000)), nuk, 1, 1, Nscf(NKs)) :
        v \in Variants \ {"wannier"}, nki \in {<<1, 1, 1>>, <<2, 1, 1>>},
        nuk \in {1, 2, 3}}

\* Wannier-basis runs on a mesh of three k-points along x or along y
InputsThirds ==
    UNION {{Input("hloc_diag", "wannier", 0, nki, <<Shell(nw, 1)>>, 0,
                  HrOf(nw, rv, H0), 3, nw, nw, Nscf(NKs)) :
               H0 \in {RealMat1(500000), RealMat2(1, 0, 0, 4)} \cap OnsiteHams(nw),
               rv \in RVecSets, nki \in {<<3, 1, 1>>, <<1, 3, 1>>}} :
           nw \in {1, 2}}

Inputs ==
    InputsNumeric \cup InputsRot \cup InputsMesh \cup InputsFiles \cup InputsCounts
    \cup InputsKCount \cup InputsThirds

\* a converter has been constructed and convert_dft_input is called
Init ==
    /\ inp \in Inputs
    /\ pc = "start"
    /\ err = NoErr
    /\ bound = {}
    /\ self = self0
    /\ cv = cv0
    /\ rd = rd0
    /\ reports = {}
    /\ events = {}
    /\ ar = ar0
    /\ lib = lib0
    /\ run = 1
    /\ peers = <<>>
    /\ msize = <<1, 1, 1>> /\ mmode = 0 /\ mret = NoMesh
    /\ r_type = "none" /\ r_sh = <<>> /\ r_map = <<>> /\ r_ham = MZeros(0, 0)
    /\ r_ret = NoRot

Next ==
    \/ ReadInput
    \/ BuildMesh
    \/ OpenHr
    \/ ParseHeader
    \/ ReadU
    \/ ReadUdis
    \/ Alloc
    \/ ReadDegs
    \/ ParseRecord
    \/ FillU
    \/ FillUdis
    \/ PostRead
    \/ Onsite
    \/ FindRot
    \/ Projector
    \/ Hopping
    \/ Save
    \/ Misc

Spec == Init /\ [][Next]_vars

----------------------------------------------------------------------------
(* kmesh_build on its own: every grid size up to MaxMesh, every mode *)

MeshModes == {-2, -1, 0, 1, 2}

InitMesh ==
    /\ msize \in (1..MaxMesh) \X (1..MaxMesh) \X (1..MaxMesh)
    /\ mmode \in MeshModes
    /\ mret = NoMesh
    /\ r_type = "none" /\ r_sh = <<>> /\ r_map = <<>> /\ r_ham = MZeros(0, 0)
    /\ r_ret = NoRot
    /\ ConvIdle

CallKmeshBuild ==
    /\ mret.status = "none"
    /\ mret' = kmesh_build(msize, mmode)
    /\ UNCHANGED <<msize, mmode, rotVars, convVars>>

NextMesh == CallKmeshBuild

SpecMesh == InitMesh /\ [][NextMesh]_vars

----------------------------------------------------------------------------
----------------------------------------------------------------------------
(* An MPI job: the master process calls convert_dft_input, once or again on
   the same files, over an archive that may hold groups already; every other
   process calls one of the three methods that begin with the test of
   mpi.is_master_node() *)

MaxRuns == 2

MaxPeers == 2

SelfAttributes == {"self.n_k", "self.kpts"}

\* what an archive may hold before the first call: nothing, or the two groups
\* of an earlier conversion together with a group of some other program
PriorArchives ==
    {ar0,
     [ar0 EXCEPT !.dft = [n_k |-> 0, hopping |-> <<>>, note |-> "kept"],
                 !.misc = [band_window |-> <<0, 0>>, note |-> "kept"],
                 !.other = [symmcorr_input |-> "kept"]]}

\* the conversions of a job: some that end well, in either basis, and some
\* that fail for a file that is not there
InputsJob ==
    InputsKCount \cup InputsThirds
    \cup {i \in InputsFiles : ~i.hr.present \/ ~i.nscf.present}

InitJob ==
    /\ inp \in InputsJob
    /\ pc = "start"
    /\ err = NoErr
    /\ bound = {}
    /\ self = self0
    /\ cv = cv0
    /\ rd = rd0
    /\ reports = {}
    /\ events = {}
    /\ ar \in PriorArchives
    /\ lib = lib0
    /\ run = 1
    /\ peers = [p \in 1..MaxPeers |-> "start"]
    /\ msize = <<1, 1, 1>> /\ mmode = 0 /\ mret = NoMesh
    /\ r_type = "none" /\ r_sh = <<>> /\ r_map = <<>> /\ r_ham = MZeros(0, 0)
    /\ r_ret = NoRot

\* the master calls convert_dft_input again, on the same converter or on a new
\* one made with the same arguments; the locals of the call are new
Rerun ==
    /\ pc \in {"done", "failed"}
    /\ run < MaxRuns
    /\ run' = run + 1
    /\ pc' = "start"
    /\ err' = NoErr
    /\ cv' = cv0
    /\ rd' = rd0
    /\ events' = {}
    /\ \E fresh \in BOOLEAN :
           IF fresh THEN self' = self0 /\ bound' = {}
           ELSE self' = self /\ bound' = bound \cap SelfAttributes
    /\ UNCHANGED <<meshVars, rotVars, inp, reports, ar, lib, peers>>

\* a process that is not the master goes on into the method and opens the archive
PeerOpensArchive(p, method) ==
    /\ peers[p] = "start"
    /\ peers' = [peers EXCEPT ![p] = method]
    /\ ar' = [ar EXCEPT !.open = TRUE, !.opened = @ + 1]
    /\ UNCHANGED <<meshVars, rotVars, inp, pc, err, bound, self, cv, rd, reports,
                   events, lib, run>>

\* a process that is not the master returns once the master has written the archive
PeerAfterMaster ==
    /\ pc = "done"
    /\ \E p \in DOMAIN peers :
           /\ peers[p] = "start"
           /\ peers' = [peers EXCEPT ![p] = "convert_dft_input"]
    /\ UNCHANGED <<meshVars, rotVars, inp, pc, err, bound, self, cv, rd, reports,
                   events, ar, lib, run>>

\* lines 127-129, 447-449, 814-816: on a process that is not the master the
\* method returns at once
PeerReturns(p, method) ==
    /\ peers[p] = "start"
    /\ peers' = [peers EXCEPT ![p] = method]
    /\ UNCHANGED <<meshVars, rotVars, inp, pc, err, bound, self, cv, rd, reports,
                   events, ar, lib, run>>

PeerConvertDftInput == \E p \in DOMAIN peers : PeerReturns(p, "convert_dft_input")

PeerReadWannier90Data == \E p \in DOMAIN peers : PeerReturns(p, "read_wannier90data")

PeerConvertMiscInput == \E p \in DOMAIN peers : PeerReturns(p, "convert_misc_input")

NextJob ==
    \/ ReadInput
    \/ BuildMesh
    \/ OpenHr
    \/ ParseHeader
    \/ ReadU
    \/ ReadUdis
    \/ Alloc
    \/ ReadDegs
    \/ ParseRecord
    \/ FillU
    \/ FillUdis
    \/ PostRead
    \/ Onsite
    \/ FindRot
    \/ Projector
    \/ Hopping
    \/ Save
    \/ Misc
    \/ Rerun
    \/ PeerConvertDftInput
    \/ PeerReadWannier90Data
    \/ PeerConvertMiscInput

SpecJob == InitJob /\ [][NextJob]_vars

(* C1: for every grid size (a,b,c) kmesh_build with mode 0 returns exactly a*b*c
   k-points, one for each (ix,iy,iz) of [0,a)x[0,b)x[0,c) with coordinates
   (ix/a, iy/b, iz/c), the origin included and all points distinct; every weight
   is 1/(a*b*c) and the weights sum to 1. *)
C1_MeshIsFullGrid ==
    (mret.status # "none" /\ mmode = 0) =>
        LET a == msize[1]
            b == msize[2]
            c == msize[3]
            n == a * b * c
        IN  /\ mret.status = "ok"
            /\ mret.nkpt = n
            /\ Len(mret.kpts) = n
            /\ Len(mret.wk) = n
            /\ \A ix \in 0..(a - 1), iy \in 0..(b - 1), iz \in 0..(c - 1) :
                   \E ii \in 1..n :
                       /\ FracEq(mret.kpts[ii][1], Frac(ix, a))
                       /\ FracEq(mret.kpts[ii][2], Frac(iy, b))
                       /\ FracEq(mret.kpts[ii][3], Frac(iz, c))
            /\ \A i1, i2 \in 1..n :
                   (i1 # i2) =>
                       \E d \in 1..3 : ~FracEq(mret.kpts[i1][d], mret.kpts[i2][d])
            /\ \A d \in 1..3 : mret.kpts[1][d][1] = 0
            /\ \A ii \in 1..n : FracEq(mret.wk[ii], Frac(1, n))
            /\ \A ii \in 1..n : mret.wk[ii][2] = n
            /\ SumNum(mret.wk, n) = n

\* a mesh with more than one point along every axis has been built in mode 0
C1_Witness ==
    /\ mret.status = "ok"
    /\ mmode = 0
    /\ msize[1] > 1 /\ msize[2] > 1 /\ msize[3] > 1
    /\ mret.nkpt = msize[1] * msize[2] * msize[3]

----------------------------------------------------------------------------
\* the files are those of the end-to-end scenario: one shell of dimension 1,
\* the Wannier basis, an explicit 1x1x1 mesh, and a Hamiltonian file with the
\* one R-vector (0,0,0) of degeneracy 1 and the one real element h
EndToEndScenario ==
    /\ inp.corr_shells = <<Shell(1, 1)>>
    /\ ~inp.bloch_basis
    /\ inp.kmesh_mode = 0
    /\ inp.nki = <<1, 1, 1>>
    /\ inp.hr.present
    /\ inp.hr.wf_tok = Tok(1)
    /\ inp.hr.nr_tok = Tok(1)
    /\ inp.hr.degs = <<1>>
    /\ Len(inp.hr.recs) = 1
    /\ inp.hr.recs[1].R = R0
    /\ inp.hr.recs[1].i = 1 /\ inp.hr.recs[1].j = 1
    /\ inp.hr.recs[1].z[2] = 0
    /\ inp.hr.recs[1].bad = "none"

(* C2: in the end-to-end scenario (one shell of dimension 1, one R-vector
   (0,0,0) of degeneracy 1 with element (h, 0), Fermi energy ef, Wannier basis,
   explicit 1x1x1 mesh) convert_dft_input does not fail, and when it is done
   the hopping is one 1x1 matrix for one k-point with the value h - ef, and
   the rotation list is [[1]]; both are what the archive holds. *)
C2_EndToEndHopping ==
    EndToEndScenario
    => /\ pc # "failed"
       /\ pc = "done"
          => /\ Len(cv.hopping) = 1
             /\ MEqual(cv.hopping[1].a,
                       RealMat1(inp.hr.recs[1].z[1] - inp.fermi))
             /\ MEqual(cv.hopping[1].b, MZeros(1, 1))
             /\ Len(cv.rot_mat) = 1
             /\ MEqual(cv.rot_mat[1], MIdentity(1))
             /\ ar.dft.hopping = cv.hopping
             /\ ar.dft.rot_mat = cv.rot_mat

\* the scenario has run to its end with h = 0.5 and ef = 0.2: the hopping is 0.3
C2_Witness ==
    /\ EndToEndScenario
    /\ pc = "done"
    /\ inp.hr.recs[1].z = <<500000, 0>>
    /\ inp.fermi = 200000
    /\ cv.hopping[1].a.e[<<0, 0>>] = <<300000, 0>>
    /\ cv.hopping[1].a.den = 1

----------------------------------------------------------------------------
\* the lines of H(R) that the read loop has stored so far (0-based)
StoredLines ==
    IF pc \in {"start", "mesh", "hr_open", "hr_header", "u_file", "udis_file", "alloc"}
    THEN {} ELSE 0..(rd.pos - 1)

\* the element that the read loop stored for its q-th line
StoredFor(q) ==
    LET sl == SlotOf(q, rd.num_wf) IN rd.h_of_r[sl.ir + 1].e[<<sl.ii, sl.jj>>]

\* the q-th line's own R-vector is the origin and its slot is diagonal
OnsiteDiagonal(q) ==
    /\ inp.hr.recs[q + 1].R = <<0, 0, 0>>
    /\ SlotOf(q, rd.num_wf).ii = SlotOf(q, rd.num_wf).jj

(* C3: for every line of H(R) that read_wannier90data has stored: when the
   line's R-vector is (0,0,0) and its slot is diagonal, the stored element is
   (real - fermi_energy, imag); for every other line the stored element is the
   (real, imag) of the file. *)
C3_FermiOnlyOnsiteDiagonal ==
    \A q \in StoredLines :
        LET z == inp.hr.recs[q + 1].z
        IN  IF OnsiteDiagonal(q)
            THEN StoredFor(q) = <<z[1] - self.fermi_energy, z[2]>>
            ELSE StoredFor(q) = z

\* with a Fermi energy of 0.2 eV the loop has stored a diagonal element at
\* R = 0, an off-diagonal element at R = 0 and a diagonal element at R # 0
C3_Witness ==
    /\ self.fermi_energy = 200000
    /\ \E q1, q2, q3 \in StoredLines :
           /\ OnsiteDiagonal(q1)
           /\ StoredFor(q1) # inp.hr.recs[q1 + 1].z
           /\ inp.hr.recs[q2 + 1].R = <<0, 0, 0>>
           /\ SlotOf(q2, rd.num_wf).ii # SlotOf(q2, rd.num_wf).jj
           /\ inp.hr.recs[q3 + 1].R # <<0, 0, 0>>
           /\ SlotOf(q3, rd.num_wf).ii = SlotOf(q3, rd.num_wf).jj

----------------------------------------------------------------------------
\* the places of convert_dft_input after the header of seed_hr.dat
AfterHeader ==
    {"u_file", "udis_file", "alloc", "degs", "records", "u_fill", "udis_fill",
     "post_read", "onsite", "rot", "proj", "hop", "save", "misc", "done"}

\* the header of seed_hr.dat holds a count that int() does not parse
MalformedHeader ==
    /\ inp.hr.present
    /\ ~inp.hr.wf_tok.ok \/ ~inp.hr.nr_tok.ok

(* C4: when the header of the Hamiltonian file holds a non-integer count of
   Wannier functions or of R-vectors, the conversion fails with the error of
   the malformed input raised at the header step (lines 461-466); it does not
   go on past the header with the count undefined. *)
C4_MalformedHeaderFailsAtHeader ==
    MalformedHeader
    => /\ pc \notin AfterHeader
       /\ pc = "failed" => (err.kind = "ValueError" /\ err.line \in 461..466)

(* C5: when seed_hr.dat is missing, read_wannier90data fails with the error of
   the unavailable file at the failed open (lines 452-457); it does not reach
   a statement that uses the contents of the file. *)
C5_MissingFileFailsAtOpen ==
    (~inp.hr.present /\ pc = "failed")
    => /\ err.kind \in {"IOError", "FileNotFoundError", "OSError"}
       /\ err.line \in 452..457

\* the error of line 476 (u against hr) or of line 500 (u_dis against u)
CountsError(line) == pc = "failed" /\ err.kind = "ValueError" /\ err.line = line

(* C6: in Bloch-basis mode the error of inconsistent dimensions is raised if
   and only if the count of Wannier functions of seed_u.mat differs in value
   from that of seed_hr.dat (and that of seed_u_dis.mat from that of
   seed_u.mat): equal counts of any magnitude raise nothing, unequal counts
   raise before any line of H(R) is parsed. *)
C6_RaisesIffCountsDiffer ==
    /\ CountsError(476) => inp.u.num_wf_u # rd.num_wf
    /\ CountsError(500) => inp.udis.num_wf_udis # inp.u.num_wf_u
    /\ (inp.bloch_basis /\ pc \in {"degs", "records"})
       => /\ inp.u.num_wf_u = rd.num_wf
          /\ inp.udis.present => inp.udis.num_wf_udis = inp.u.num_wf_u

----------------------------------------------------------------------------
\* some |H[i,j] - conj(H[j,i])| exceeds 2e-6 (H in units of 1e-6 eV)
NotHermitianWithinTol(H) ==
    \E p \in DOMAIN H.e :
        LET d == CSub(H.e[p], CConj(H.e[<<p[2], p[1]>>]))
        IN  d[1] * d[1] + d[2] * d[2] > 4 * H.den * H.den

(* C7: once the on-site block of the correlated shells has been extracted: if
   it is not Hermitian within 2e-6, convert_dft_input has raised at line 325,
   find_rot_mat has not been called, no projector and no hopping has been
   built and the archive has not been opened; if it is Hermitian within 2e-6,
   line 325 has not raised. *)
C7_NonHermitianStopsAtOnce ==
    "ham_corr0" \in bound
    => IF NotHermitianWithinTol(cv.ham_corr0)
       THEN /\ pc = "failed"
            /\ err = [kind |-> "ValueError", line |-> 325]
            /\ events \cap {"find_rot_mat", "projector", "hopping", "archive"} = {}
            /\ cv.rot_mat = <<>> /\ cv.proj_mat = <<>> /\ cv.hopping = <<>>
            /\ ar = ar0
       ELSE err.line # 325

\* a 2x2 on-site block with H[0,1] = 3e-6 and H[1,0] = 0 has stopped the run
C7_Witness ==
    /\ "ham_corr0" \in bound
    /\ cv.ham_corr0.nr = 2
    /\ NotHermitianWithinTol(cv.ham_corr0)
    /\ pc = "failed"
    /\ err.line = 325

----------------------------------------------------------------------------
(* C8: convert_dft_input given a kmesh_mode that is neither 0 nor -1 fails with
   the error of the unsupported mode at once, before any Wannier90 file is
   read. *)
C8_UnsupportedModeFailsBeforeFiles ==
    inp.kmesh_mode \notin {0, -1}
    => /\ events \cap {"open seed_hr.dat", "open seed_u.mat", "open seed_u_dis.mat",
                       "open seed.eig"} = {}
       /\ pc = "failed" => err = [kind |-> "ValueError", line |-> 746]

\* the Wannier90 files are all there and well-formed
RegularFiles ==
    /\ inp.hr.present
    /\ inp.hr.wf_tok.ok /\ inp.hr.nr_tok.ok
    /\ \A q \in DOMAIN inp.hr.recs : inp.hr.recs[q].bad = "none"

(* C9: in derivation mode (kmesh_mode = -1) with regular files, in the Wannier
   basis and in the Bloch basis with or without a disentanglement file, no
   step before the mesh is built fails: the run does not stop before self.n_k
   has been set from the derived mesh. *)
C9_DerivationModeReachesMesh ==
    (inp.kmesh_mode = -1 /\ RegularFiles /\ "self.n_k" \notin bound)
    => pc # "failed"

----------------------------------------------------------------------------
\* the eigenvalues of the on-site block of shell ish, in ascending order
BlockEigenvalues(sh_lst, ham0, ish) ==
    (CHOOSE r \in EighSet(ShellBlock(sh_lst, ham0, ish)) : TRUE).w

\* shell i is declared equivalent to another shell of the same dimension, and
\* the eigenvalues of their on-site blocks differ by more than _w90zero
MismatchedPair(sh_lst, sh_map, ham0, i) ==
    /\ sh_map[i] # i
    /\ sh_lst[i].dim = sh_lst[sh_map[i]].dim
    /\ LET w1 == BlockEigenvalues(sh_lst, ham0, i)
           w2 == BlockEigenvalues(sh_lst, ham0, sh_map[i])
       IN  \E k \in 1..sh_lst[i].dim : Abs(w1[k] - w2[k]) > W90Zero

\* every shell has the dimension of its representative
EquivalentShellsAlike(sh_lst, sh_map) ==
    \A i \in 1..Len(sh_lst) : sh_lst[i].dim = sh_lst[sh_map[i]].dim

(* C10: for two shells declared equivalent whose on-site blocks have eigenvalues
   differing by more than 2e-6, find_rot_mat under 'hloc_diag' or 'wannier'
   returns succeeded = False without raising, and the returned rotation list
   has one matrix per shell, each square with the dimension of its shell. *)
C10_MismatchReportedNotRaised ==
    (/\ r_ret.status # "none"
     /\ r_type \in {"hloc_diag", "wannier"}
     /\ BlockStructureOk(r_sh, r_ham)
     /\ EquivalentShellsAlike(r_sh, r_map)
     /\ \E i \in 1..Len(r_sh) : MismatchedPair(r_sh, r_map, r_ham, i))
    => /\ r_ret.status = "ok"
       /\ r_ret.succeeded = FALSE
       /\ Len(r_ret.rot_mat) = Len(r_sh)
       /\ \A i \in 1..Len(r_sh) :
              /\ r_ret.rot_mat[i].nr = r_sh[i].dim
              /\ r_ret.rot_mat[i].nc = r_sh[i].dim

\* find_rot_mat has returned for two equivalent shells of dimension 2 with
\* mismatched eigenvalues, under the 'wannier' policy
C10_Witness ==
    /\ r_ret.status = "ok"
    /\ r_type = "wannier"
    /\ Len(r_sh) = 2
    /\ r_sh[2].dim = 2
    /\ BlockStructureOk(r_sh, r_ham)
    /\ MismatchedPair(r_sh, r_map, r_ham, 2)
    /\ ~r_ret.succeeded

----------------------------------------------------------------------------
\* R^dagger * H * R
Conjugated(R, H) == MDot(MDagger(R), MDot(H, R))

\* every entry off the diagonal is zero
IsDiagonal(D) == \A p \in DOMAIN D.e : (p[1] # p[2]) => D.e[p] = CZero

\* the diagonal of D as a sequence of complex numbers over D.den
DiagonalOf(D) == [i \in 1..D.nr |-> D.e[<<i - 1, i - 1>>]]

\* find_rot_mat has returned for one shell that is its own representative,
\* under one of the two diagonalising policies
SingleShellReturned ==
    /\ r_ret.status = "ok"
    /\ Len(r_sh) = 1
    /\ r_map = <<1>>
    /\ BlockStructureOk(r_sh, r_ham)
    /\ r_type \in {"hloc_diag", "wannier"}

(* C11 as stated: for a single shell that is its own representative and a
   Hermitian on-site block H, the rotation R returned under 'hloc_diag' and the
   one returned under 'wannier' each make R^dagger * H * R diagonal. *)
C11_BothPoliciesDiagonalize ==
    SingleShellReturned => IsDiagonal(Conjugated(r_ret.rot_mat[1], r_ham))

(* C11 amended: for a single shell that is its own representative and a
   Hermitian on-site block H, the rotation R returned under 'hloc_diag' makes
   R^dagger * H * R diagonal with the eigenvalues of H on its diagonal; the
   rotation returned under 'wannier' is the identity (the shell's eigenvectors
   times their own conjugate transpose), so R^dagger * H * R is H itself: it
   has the same eigenvalues but is diagonal only when H is. *)
C11_HlocDiagonalizesWannierIsIdentity ==
    SingleShellReturned
    => LET R == r_ret.rot_mat[1]
           D == Conjugated(R, r_ham)
       IN  IF r_type = "hloc_diag"
           THEN /\ IsDiagonal(D)
                /\ D.den = 1
                /\ DiagonalOf(D) = [i \in 1..r_ham.nr |->
                                       <<BlockEigenvalues(r_sh, r_ham, 1)[i], 0>>]
           ELSE /\ MEqual(R, MIdentity(r_sh[1].dim))
                /\ MEqual(D, r_ham)
                /\ IsDiagonal(D) <=> IsDiagonal(r_ham)

\* 'wannier' has returned the identity for one shell of dimension 2 whose
\* on-site block is not diagonal
C11_Witness ==
    /\ SingleShellReturned
    /\ r_type = "wannier"
    /\ r_sh[1].dim = 2
    /\ ~IsDiagonal(r_ham)
    /\ MEqual(r_ret.rot_mat[1], MIdentity(2))

----------------------------------------------------------------------------
\* the places of convert_dft_input after read_wannier90data has returned
AfterRead == {"post_read", "onsite", "rot", "proj", "hop", "save", "misc", "done"}

\* Bloch-basis mode, and the attempt to open seed_u_dis.mat has failed
IsolatedBands ==
    /\ inp.bloch_basis
    /\ "disentangle" \in bound
    /\ ~inp.udis.present

(* C12: in Bloch-basis mode, when seed_u_dis.mat cannot be opened,
   read_wannier90data does not fail; it returns identity disentanglement
   matrices and a band stand-in of value 1, one block for each k-point block
   of the unitary matrix, so that Udis(k) * U(k) is U(k) for every k. *)
C12_IsolatedBandsPadding ==
    IsolatedBands
    => /\ ~(pc = "failed" /\ err.line \in 560..600)
       /\ pc \in AfterRead
          => /\ Len(rd.udis_mat) = Len(rd.u_mat)
             /\ Len(rd.band_mat) = Len(rd.u_mat)
             /\ \A k \in 1..Len(rd.udis_mat) :
                    /\ MEqual(rd.udis_mat[k], MIdentity(rd.num_wf))
                    /\ rd.band_mat[k] = [b \in 1..rd.num_wf |-> 1]
             /\ \A k \in 1..Len(rd.u_mat) :
                    /\ k \in DOMAIN rd.udis_mat
                    /\ MEqual(MDot(rd.udis_mat[k], rd.u_mat[k]), rd.u_mat[k])

----------------------------------------------------------------------------
\* the hoppings held are fourier_ham(cv.hamr) itself (Wannier basis, line 392)
FourierDone ==
    /\ ~inp.bloch_basis
    /\ "hopping" \in events
    /\ pc \in {"save", "misc", "done"}
    /\ ~UseBands(cv.n_bands_max, self.nwfs)

\* exp(-2 pi i k.R) (a + sqrt(3) b), as the pair of its two parts
OppositePhaseTimes(k, R, h) ==
    LET f1 == FactorOpposite(k, R, 1)
        f2 == FactorOpposite(k, R, 2)
    IN  [a |-> MAdd(MScale(f1, 2, h.a), MScale(CScale(3, f2), 2, h.b)),
         b |-> MAdd(MScale(f1, 2, h.b), MScale(f2, 2, h.a))]

RECURSIVE InverseSum(_, _, _)
\* the sum of exp(-2 pi i k.R) H(k) over the first n k-points of the mesh
InverseSum(hk, R, n) ==
    IF n = 0 THEN [a |-> MZeros(self.nwfs, self.nwfs), b |-> MZeros(self.nwfs, self.nwfs)]
    ELSE LET s == InverseSum(hk, R, n - 1)
             t == OppositePhaseTimes(self.kpts[n], R, hk[n])
         IN  [a |-> MAdd(s.a, t.a), b |-> MAdd(s.b, t.b)]

\* the inverse transform at R: the sum over the mesh divided by the k-point count
InverseTransform(hk, R) ==
    LET s == InverseSum(hk, R, self.n_k)
    IN  [a |-> MScale(<<1, 0>>, self.n_k, s.a), b |-> MScale(<<1, 0>>, self.n_k, s.b)]

\* the R-vectors of the set that have the phase of R at every k-point of the mesh
Images(R) ==
    {ir \in 1..self.nrpt :
        \A ik \in 1..self.n_k :
            Phase12(self.kpts[ik], self.rvec[ir]) = Phase12(self.kpts[ik], R)}

RECURSIVE WeightedSum(_, _)
\* the sum of H(R') / degeneracy(R') over the R-vectors of the index set S
WeightedSum(h_of_r, S) ==
    IF S = {} THEN MZeros(self.nwfs, self.nwfs)
    ELSE LET ir == CHOOSE i \in S : TRUE
         IN  MAdd(WeightedSum(h_of_r, S \ {ir}), MScale(<<1, 0>>, self.rdeg[ir], h_of_r[ir]))

\* the set holds R as Wannier90 writes a vector of degeneracy d: d vectors that
\* the mesh cannot tell apart, each with the same block
WholeStar(h_of_r, ir) ==
    /\ Cardinality(Images(self.rvec[ir])) = self.rdeg[ir]
    /\ \A j \in Images(self.rvec[ir]) :
           /\ self.rdeg[j] = self.rdeg[ir]
           /\ MEqual(h_of_r[j], h_of_r[ir])

\* fourier_ham followed by the inverse transform gives back H(R)
RoundTripAt(ir) ==
    LET back == InverseTransform(cv.hopping, self.rvec[ir])
    IN  /\ MEqual(back.a, cv.hamr[ir])
        /\ MEqual(back.b, MZeros(self.nwfs, self.nwfs))

(* C13 as stated: for any set of R-vectors with positive integer degeneracies
   and any blocks H(R), fourier_ham followed by the inverse transform (sum
   over the mesh of exp(-2 pi i k.R) H(k), divided by the k-point count)
   reproduces H(R) for every R of the set. *)
C13_RoundTripAnySet ==
    FourierDone => \A ir \in 1..self.nrpt : RoundTripAt(ir)

(* C13: fourier_ham followed by the inverse transform gives, at R, the sum of
   H(R') / degeneracy(R') over the vectors R' of the set that the mesh cannot
   tell from R; this is H(R) when there are degeneracy(R) such vectors, all
   of that degeneracy and with the block of R. *)
C13_RoundTripUpToImages ==
    FourierDone
    => \A ir \in 1..self.nrpt :
           LET back == InverseTransform(cv.hopping, self.rvec[ir])
           IN  /\ MEqual(back.a, WeightedSum(cv.hamr, Images(self.rvec[ir])))
               /\ MEqual(back.b, MZeros(self.nwfs, self.nwfs))
               /\ WholeStar(cv.hamr, ir) => RoundTripAt(ir)

\* a vector of degeneracy two, with its image, on a mesh of two k-points comes back
C13_Witness ==
    /\ FourierDone
    /\ self.n_k = 2
    /\ \E ir \in 1..self.nrpt :
           /\ self.rdeg[ir] = 2
           /\ WholeStar(cv.hamr, ir)
           /\ RoundTripAt(ir)
           /\ ~MEqual(cv.hamr[ir], MZeros(self.nwfs, self.nwfs))

----------------------------------------------------------------------------
\* the content of the archive
Content(a) == <<a.dft, a.misc, a.other>>

\* the keys of a group
Keys(grp) == IF grp = NoGroup THEN {} ELSE DOMAIN grp

(* C14: writing is an idempotent overwrite.  A second call of convert_dft_input
   on unchanged inputs leaves the archive as the first call left it; the
   writing of dft_input goes ahead whatever the archive holds, gives every
   saved key the value of this call, and leaves the other keys of the group
   and the other groups as they were. *)
C14_IdempotentOverwrite ==
    [][/\ (run >= 2 /\ run' = run) => Content(ar') = Content(ar)
       /\ pc = "save" => ENABLED Save
       /\ (pc = "save" /\ pc' # "save")
          => /\ \A k \in DOMAIN DftGroup : ar'.dft[k] = DftGroup[k]
             /\ \A k \in Keys(ar.dft) \ DOMAIN DftGroup : ar'.dft[k] = ar.dft[k]
             /\ ar'.misc = ar.misc
             /\ ar'.other = ar.other]_vars

\* a second call has written over an archive that held the groups of an earlier
\* conversion and a group of another program
C14_Witness ==
    /\ run = 2
    /\ pc = "done"
    /\ "archive" \in events
    /\ ar.opened = 2
    /\ "note" \in Keys(ar.dft)
    /\ ar.dft.n_k = self.n_k
    /\ self.n_k > 0
    /\ ar.other # NoGroup

----------------------------------------------------------------------------
\* what reading a file, computing or writing the archive changes
WorkOfTheCall == <<pc, err, bound, self, cv, rd, reports, events, ar, lib>>

(* C15: only the master process reads input files, computes or opens the
   archive.  The return of a non-master process from convert_dft_input,
   read_wannier90data or convert_misc_input opens no file and changes nothing
   of the conversion or of the archive; the archive is open only while the
   master is between the writing of dft_input and the end of
   convert_misc_input, so never by two processes. *)
C15_OnlyMasterWorks ==
    [][/\ (peers' # peers) => (WorkOfTheCall' = WorkOfTheCall)
       /\ (ar'.opened # ar.opened) => (peers' = peers /\ pc = "save")
       /\ ar.open => pc = "misc"
       /\ ar.opened <= run]_vars

\* the peers have returned from two of the methods while the master holds the
\* archive open
C15_Witness ==
    /\ ar.open
    /\ pc = "misc"
    /\ ar.opened = 1
    /\ \E p, q \in DOMAIN peers :
           /\ peers[p] = "read_wannier90data"
           /\ peers[q] = "convert_misc_input"

----------------------------------------------------------------------------
\* the master's call has ended in an exception, or has ended with the rotation
\* check failed, and the archive holds nothing of this job
MasterFailed ==
    /\ \/ pc = "failed"
       \/ pc = "done" /\ inp.rot_mat_type # "none" /\ ~cv.use_rotations
    /\ pc = "failed" => ar = ar0

EveryPeerReturned ==
    \A p \in DOMAIN peers : peers[p] = "convert_dft_input"

(* C16: convert_dft_input has no synchronisation between the master and its
   peers: a non-master process can return from it wherever the master is and
   whatever the master's outcome, and nothing the master does, failing
   included, changes what the peers have returned. *)
C16_NoSynchronisation ==
    [][/\ (\E p \in DOMAIN peers : peers[p] = "start") => ENABLED PeerConvertDftInput
       /\ (pc' # pc) => (peers' = peers)]_vars

\* the split-brain state: the master has failed without writing anything and
\* every peer has returned from convert_dft_input
C16_Witness ==
    /\ pc = "failed"
    /\ ar = ar0
    /\ run = 1
    /\ MasterFailed
    /\ EveryPeerReturned

----------------------------------------------------------------------------
\* shell ish passes the three checks of lines 689-718 with the rotations returned
PassesChecks(ish) ==
    /\ VAllClose(BlockEigenvalues(r_sh, r_ham, ish), BlockEigenvalues(r_sh, r_ham, r_map[ish]))
    /\ UnitaryCheck(r_ret.rot_mat[ish], r_sh[ish].dim)
    /\ MappingCheck(r_type, r_sh, r_map, r_ham, r_ret.rot_mat, ish)

\* every rotation returned is the identity of its shell
AllIdentities ==
    /\ Len(r_ret.rot_mat) = Len(r_sh)
    /\ \A ish \in 1..Len(r_sh) : MEqual(r_ret.rot_mat[ish], MIdentity(r_sh[ish].dim))

(* C17: find_rot_mat returns, and its flag is the conjunction of its checks:
   succeeded is True exactly when the block structure is the expected one and
   the policy is 'none' or every shell passes the three checks; no failure on
   a shell stops the checks of the later shells (each failed check of each
   shell is reported); under 'none' and on a wrong block structure the
   rotations returned are identities. *)
C17_FlagIsConjunctionOfChecks ==
    r_ret.status # "none"
    => /\ r_ret.status = "ok"
       /\ r_ret.succeeded
          <=> /\ BlockStructureOk(r_sh, r_ham)
              /\ r_type = "none" \/ \A ish \in 1..Len(r_sh) : PassesChecks(ish)
       /\ (r_type = "none" \/ ~BlockStructureOk(r_sh, r_ham)) => AllIdentities
       /\ (BlockStructureOk(r_sh, r_ham) /\ r_type # "none")
          => \A ish \in 1..Len(r_sh) :
                 /\ <<ish, "not unitary">> \in r_ret.reports
                    <=> ~UnitaryCheck(r_ret.rot_mat[ish], r_sh[ish].dim)
                 /\ <<ish, "does not map">> \in r_ret.reports
                    <=> ~MappingCheck(r_type, r_sh, r_map, r_ham, r_ret.rot_mat, ish)

----------------------------------------------------------------------------
\* find_rot_mat has returned after running its checks
ChecksRun ==
    /\ r_ret.status = "ok"
    /\ BlockStructureOk(r_sh, r_ham)
    /\ r_type \in {"hloc_diag", "wannier"}

\* rotation_h of shell ish: rot_mat[ish] * rot_mat[r]^dagger under 'hloc_diag',
\* rot_mat[ish] under 'wannier'
RotationH(ish) ==
    IF r_type = "hloc_diag"
    THEN MDot(r_ret.rot_mat[ish], MDagger(r_ret.rot_mat[r_map[ish]]))
    ELSE r_ret.rot_mat[ish]

MappingAccepted(ish) == <<ish, "does not map">> \notin r_ret.reports

\* shell ish has a representative other than itself, and the blocks of the two
\* have the same dimension and the same spectrum, without a repeated eigenvalue
EqualSimpleSpectra(ish) ==
    /\ r_map[ish] # ish
    /\ r_sh[ish].dim = r_sh[r_map[ish]].dim
    /\ LET w == BlockEigenvalues(r_sh, r_ham, ish)
       IN  /\ w = BlockEigenvalues(r_sh, r_ham, r_map[ish])
           /\ \A k \in 1..(Len(w) - 1) : w[k] < w[k + 1]

(* C18 as stated: the mapping check accepts shell i exactly when
   rotation_h * H_i * rotation_h^dagger is the representative's block H_r
   within 2e-6; for equivalent shells with equal non-degenerate spectra it
   accepts under both policies. *)
C18_AcceptsRotatedFromLeft ==
    ChecksRun
    => \A ish \in 1..Len(r_sh) :
           /\ MappingAccepted(ish)
              <=> MAllCloseB(MDot(RotationH(ish),
                                  MDot(ShellBlock(r_sh, r_ham, ish),
                                       MDagger(RotationH(ish)))),
                             ShellBlock(r_sh, r_ham, r_map[ish]), 1)
           /\ EqualSimpleSpectra(ish) => MappingAccepted(ish)

(* C18: the mapping check accepts shell i exactly when
   rotation_h^dagger * H_i * rotation_h is the representative's block H_r
   within 2e-6; for equivalent shells with equal non-degenerate spectra it
   accepts under both policies. *)
C18_AcceptsRotatedFromRight ==
    ChecksRun
    => \A ish \in 1..Len(r_sh) :
           /\ MappingAccepted(ish)
              <=> MAllCloseB(Conjugated(RotationH(ish), ShellBlock(r_sh, r_ham, ish)),
                             ShellBlock(r_sh, r_ham, r_map[ish]), 1)
           /\ EqualSimpleSpectra(ish) => MappingAccepted(ish)

\* two equivalent shells with different blocks of one spectrum, accepted, where
\* conjugating from the other side does not give the representative's block
C18_Witness ==
    /\ ChecksRun
    /\ \E ish \in 1..Len(r_sh) :
           /\ EqualSimpleSpectra(ish)
           /\ MappingAccepted(ish)
           /\ ~MEqual(ShellBlock(r_sh, r_ham, ish), ShellBlock(r_sh, r_ham, r_map[ish]))
           /\ ~MAllCloseB(MDot(RotationH(ish),
                               MDot(ShellBlock(r_sh, r_ham, ish), MDagger(RotationH(ish)))),
                          ShellBlock(r_sh, r_ham, r_map[ish]), 1)

----------------------------------------------------------------------------
\* shell ish belongs to an equivalence class of more than one shell
HasPartner(ish) == \E j \in 1..Len(r_sh) : j # ish /\ r_map[j] = r_map[ish]

\* the block of shell ish has two eigenvalues closer than _w90zero
NearDegenerate(ish) ==
    LET w == BlockEigenvalues(r_sh, r_ham, ish)
    IN  \E i, j \in 1..Len(w) : i < j /\ Abs(w[j] - w[i]) < W90Zero

Warned(ish) == <<ish, "degenerate eigenvalue">> \in r_ret.reports

\* find_rot_mat has gone through the loop of lines 654-670
Diagonalized ==
    /\ r_ret.status # "none"
    /\ BlockStructureOk(r_sh, r_ham)
    /\ r_type \in {"hloc_diag", "wannier"}

(* C19: find_rot_mat issues the degenerate-eigenvalue warning for every shell
   that has an equivalence partner, the class representative included, and
   whose block has two eigenvalues closer than 2e-6, and for no shell without
   a partner. *)
C19_WarnsEveryShellWithPartner ==
    Diagonalized
    => \A ish \in 1..Len(r_sh) : Warned(ish) <=> (HasPartner(ish) /\ NearDegenerate(ish))

----------------------------------------------------------------------------
\* every token of every line of H(R) is a number
RecordsNumeric ==
    /\ inp.hr.present
    /\ \A q \in DOMAIN inp.hr.recs : inp.hr.recs[q].bad = "none"

\* the lines of H(R) that the header announces
RecordCount == rd.nrpt * rd.num_wf * rd.num_wf

\* the read loop has been left
RecordsDone ==
    pc \in {"u_fill", "udis_fill", "post_read", "onsite", "rot", "proj", "hop", "save",
            "misc", "done"}

\* the first line of the block that line q belongs to
BlockFirst(q) == inp.hr.recs[((q - 1) \div (rd.num_wf * rd.num_wf)) * rd.num_wf * rd.num_wf + 1]

\* line q does not carry the orbital indices of its slot
IndexMismatch(q) ==
    LET sl == SlotOf(q - 1, rd.num_wf)
    IN  inp.hr.recs[q].i # sl.ii + 1 \/ inp.hr.recs[q].j # sl.jj + 1

\* line q does not carry the R-vector of the first line of its block
RVectorMismatch(q) == inp.hr.recs[q].R # BlockFirst(q).R

(* C20: record parsing is lenient but flagged.  A line whose orbital indices
   are not those of its slot, or whose R-vector is not that of the first line
   of its block, is reported, and the loop goes on to the last line; the
   R-vector kept for a block is that of its first line; the value of every
   line is stored at the slot (ir, ii, jj) of the loop, never at the indices
   written on the line. *)
C20_LenientButFlagged ==
    (RecordsNumeric /\ (pc = "records" \/ RecordsDone))
    => /\ RecordsDone => rd.pos = RecordCount
       /\ \A q \in 1..rd.pos :
              LET sl == SlotOf(q - 1, rd.num_wf)
                  cline == inp.hr.recs[q]
              IN  /\ IndexMismatch(q)
                     <=> Rep("Inconsistent indices", sl.ii, sl.jj, sl.ir) \in reports
                  /\ RVectorMismatch(q)
                     => Rep("Inconsistent indices for R vector", sl.ir, 0, 0) \in reports
                  /\ rd.rvec_idx[sl.ir + 1] = BlockFirst(q).R
                  /\ rd.h_of_r[sl.ir + 1].e[<<sl.ii, sl.jj>>]
                         = IF cline.R = R0 /\ sl.ii = sl.jj
                           THEN <<cline.z[1] - inp.fermi, cline.z[2]>>
                           ELSE cline.z
       /\ \A ir \in 0..(rd.nrpt - 1) :
              Rep("Inconsistent indices for R vector", ir, 0, 0) \in reports
              => \E q \in 1..rd.pos : SlotOf(q - 1, rd.num_wf).ir = ir /\ RVectorMismatch(q)

\* a file with a line of swapped orbital indices has been read to its last
\* line, and the value of that line is in the slot of the loop
C20_Witness ==
    /\ RecordsNumeric
    /\ RecordsDone
    /\ rd.pos = RecordCount
    /\ \E q \in 1..rd.pos :
           LET sl == SlotOf(q - 1, rd.num_wf)
               cline == inp.hr.recs[q]
           IN  /\ IndexMismatch(q)
               /\ q < rd.pos
               /\ cline.z # CZero
               /\ rd.h_of_r[sl.ir + 1].e[<<sl.ii, sl.jj>>] = cline.z
               /\ Rep("Inconsistent indices", sl.ii, sl.jj, sl.ir) \in reports

\* a file with a line whose R-vector is not its block's has been read to its
\* last line
C20_WitnessRVector ==
    /\ RecordsNumeric
    /\ RecordsDone
    /\ \E q \in 1..rd.pos : RVectorMismatch(q) /\ q < rd.pos

----------------------------------------------------------------------------
\* the hoppings have been assembled
HoppingDone == "hopping" \in events /\ pc \in {"save", "misc", "done"}

\* lines 378-380: the diagonal matrices of the band energies of seed.eig
BandHopping ==
    [ik \in 1..self.n_k |->
        [a |-> MDiag(cv.band_mat[ik]), b |-> MZeros(cv.n_bands_max, cv.n_bands_max)]]

\* lines 384-389: the Fourier sum of H(R), upfolded in the Bloch basis
FourierHopping ==
    LET hk == fourier_ham(cv.hamr)
        maxdim == MaxDim(inp.corr_shells, Len(inp.corr_shells))
    IN  [ik \in 1..self.n_k |->
            IF inp.bloch_basis
            THEN LET P == ProjReshaped(cv.proj_mat[ik], maxdim, self.nwfs, cv.n_bands_max)
                 IN  [a |-> Upfold(P, hk[ik].a), b |-> Upfold(P, hk[ik].b)]
            ELSE hk[ik]]

(* C21: hopping assembly selects its path by whether a disentanglement file
   was read: if so hopping[k] is the diagonal matrix of the band energies of
   k, otherwise the Fourier sum of H(R), upfolded as P^dagger H(k) P exactly
   in Bloch-basis mode; hopping[k] is always square with side the number of
   bands. *)
C21_PathByDisentanglement ==
    HoppingDone
    => /\ cv.hopping = IF rd.disentangle THEN BandHopping ELSE FourierHopping
       /\ \A ik \in 1..self.n_k :
              /\ cv.hopping[ik].a.nr = cv.n_bands_max
              /\ cv.hopping[ik].a.nc = cv.n_bands_max

----------------------------------------------------------------------------
\* the projectors have been assembled
ProjectorDone == "projector" \in events /\ pc \in {"hop", "save", "misc", "done"}

\* off(i): the sum of the dimensions of the shells before shell i
Off(i) == SumDims(inp.corr_shells, i - 1)

\* rows 0..dim(i)-1 of the projector of shell i at k are rows off(i).. of
\* (Udis(k) U(k))^dagger, and its other rows are zero
ProjectorRowsAt(k, i) ==
    /\ k \in DOMAIN cv.udis_mat
    /\ k \in DOMAIN cv.u_mat
    /\ LET ut == MDagger(MDot(cv.udis_mat[k], cv.u_mat[k]))
           P == cv.proj_mat[k][i]
           dim == inp.corr_shells[i].dim
       IN  /\ Off(i) + dim <= ut.nr
           /\ P.nr = MaxDim(inp.corr_shells, Len(inp.corr_shells))
           /\ P.nc = ut.nc
           /\ \A p \in DOMAIN P.e :
                  IF p[1] < dim
                  THEN CScale(ut.den, P.e[p]) = CScale(P.den, ut.e[<<Off(i) + p[1], p[2]>>])
                  ELSE P.e[p] = CZero

\* the projector of shell i at k is the identity block that selects the
\* orbitals of the shell
IdentityBlockAt(k, i) ==
    LET P == cv.proj_mat[k][i]
    IN  \A p \in DOMAIN P.e :
            CScale(1, P.e[p])
                = IF p[1] < inp.corr_shells[i].dim /\ p[2] = Off(i) + p[1]
                  THEN <<P.den, 0>> ELSE CZero

(* C22: for every k-point and every shell i the projector rows 0..dim(i)-1
   are rows off(i)..off(i)+dim(i)-1 of the conjugate transpose of
   Udis(k) U(k), and rows dim(i)..maxdim-1 are zero; the orbital ranges start
   at Wannier function 0 and are contiguous and disjoint; in Wannier-basis
   mode the projector of a shell is the identity block of its orbitals. *)
C22_ProjectorRows ==
    ProjectorDone
    => \A k \in 1..self.n_k, i \in 1..Len(inp.corr_shells) :
           /\ ProjectorRowsAt(k, i)
           /\ ~inp.bloch_basis => IdentityBlockAt(k, i)

----------------------------------------------------------------------------
(* C23: the output is all-or-nothing.  When convert_dft_input ends with an
   exception the archive holds nothing written by the call; in Bloch-basis
   mode dft_input and dft_misc_input are both written or both absent when the
   call has ended; no input file is opened while the archive is open. *)
C23_AllOrNothing ==
    [][/\ pc' = "failed" => (ar'.dft = NoGroup /\ ar'.misc = NoGroup)
       /\ (pc' \in {"done", "failed"} /\ inp.bloch_basis)
          => (ar'.dft = NoGroup <=> ar'.misc = NoGroup)
       /\ ar.open => events' = events]_vars


(* ------------------------------------------------------------------------ *)
(* C24: whenever the Hermiticity check of convert_dft_input (line 324) is
   reached, the on-site block it examines has been assigned from an R-vector
   equal to (0,0,0) of the Hamiltonian file just read; the check is never
   reached with the block unassigned. *)
CheckReached == pc = "onsite" /\ pc' # "onsite"

AssignedFromOrigin ==
    LET dim_corr_shells == SumDims(inp.corr_shells, Len(inp.corr_shells))
    IN  /\ "ham_corr0" \in bound'
        /\ \E ir \in OriginBlocks(cv.rvec) :
               cv'.ham_corr0 = MSlice(cv.hamr[ir], 0, dim_corr_shells,
                                      0, dim_corr_shells)

C24_CheckOnAssignedBlock == [][CheckReached => AssignedFromOrigin]_vars

====
